---------------------------- MODULE Spec2Model ----------------------------
(***************************************************************************)
(* A model of the goga evolutionary engine: the constraint-aware          *)
(* dominance and the crowded tournament of solution.go, and the island     *)
(* generation step of island.go.                                           *)
(*                                                                         *)
(* Floating point values are modelled by small integers.  Scaled values,   *)
(* which the code keeps in [0,1], are kept as integer multiples of         *)
(* 1/Unit, Unit being a common multiple of every denominator that can      *)
(* occur, so that every comparison the code makes is exact here.           *)
(***************************************************************************)
EXTENDS Integers, Sequences, FiniteSets, TLC

VARIABLES
    solA, solB,   \* the two solutions handed to Compare / Fight
    prms,         \* the internal flags of Parameters read by Compare / Fight
    ret,          \* what the last call returned
    ppc,          \* "input" | "compared" | "fought"
    C,            \* the island's configuration parameters (Island.C)
    ovaoor,       \* the user objective function C.OvaOor, a function of the gene
    Pop,          \* Island.Pop, the current population
    Bkp,          \* Island.Bkp, the backup population
    ovamin,       \* Island.ovamin
    ovamax,       \* Island.ovamax
    OutOvas,      \* Island.OutOvas [nova][ntimes]
    OutOors,      \* Island.OutOors [noor][ntimes]
    Nfeval,       \* Island.Nfeval
    ncalls,       \* the number of calls of C.OvaOor made so far
    time,         \* the time handed to Run
    pc,           \* where the island is in its life
    panic         \* "none", or the chk.Panic / runtime panic that ended it

solVars == <<solA, solB, prms, ret, ppc>>

islVars == <<C, ovaoor, Pop, Bkp, ovamin, ovamax, OutOvas, OutOors, Nfeval,
             ncalls, time, pc, panic>>

vars == <<solA, solB, prms, ret, ppc, C, ovaoor, Pop, Bkp, ovamin, ovamax,
          OutOvas, OutOors, Nfeval, ncalls, time, pc, panic>>

---------------------------------------------------------------------------
(* Bounds *)

MaxOva == 1      \* objective values range over 0..MaxOva
MaxOor == 1      \* penalties range over 0..MaxOor
MaxDist == 1     \* crowding and neighbour distances range over 0..MaxDist
MaxFront == 1    \* front ids range over 0..MaxFront

\* Index sets of the objective and penalty vectors.  Compare is handed two
\* objectives and two penalties, the smallest shape with incomparable vectors;
\* Fight two objectives and no penalty (Noor = 0 is the default).
TwoIdx == {1, 2}
OneIdx == {1}
NoIdx == {}

---------------------------------------------------------------------------
(* solution.go *)

Vec(idx, dom) == [idx -> dom]

\* The solutions of a given shape: the fields of Solution that Compare and
\* Fight read.
Solutions(ovaIdx, oorIdx) ==
    [Ova : Vec(ovaIdx, 0..MaxOva), Oor : Vec(oorIdx, 0..MaxOor),
     FrontId : 0..MaxFront, DistCrowd : 0..MaxDist, DistNeigh : 0..MaxDist]

\* Solutions whose ranking metadata is irrelevant (Compare reads DistNeigh only).
PlainSolutions(ovaIdx, oorIdx) ==
    {s \in Solutions(ovaIdx, oorIdx) : s.FrontId = 0 /\ s.DistCrowd = 0}

Flags ==
    [use_solution_comparedneigh : BOOLEAN,
     use_solution_frontcomparison : BOOLEAN,
     use_solution_distneighfight : BOOLEAN]

\* utl.DblsParetoMin(u, v): one pass over the components keeping four flags.
RECURSIVE ParetoScan(_, _, _, _)
ParetoScan(u, v, todo, f) ==
    IF todo = {} THEN f
    ELSE LET i == CHOOSE k \in todo : \A m \in todo : k <= m
             g == [u_all_leq |-> f.u_all_leq /\ ~(u[i] > v[i]),
                   v_one_le  |-> f.v_one_le \/ (u[i] > v[i]),
                   u_one_le  |-> f.u_one_le \/ (u[i] < v[i]),
                   v_all_leq |-> f.v_all_leq /\ ~(u[i] < v[i])]
         IN ParetoScan(u, v, todo \ {i}, g)

DblsParetoMin(u, v) ==
    LET f == ParetoScan(u, v, DOMAIN u,
                 [u_all_leq |-> TRUE, u_one_le |-> FALSE,
                  v_all_leq |-> TRUE, v_one_le |-> FALSE])
    IN [A_dominates |-> f.u_all_leq /\ f.u_one_le,
        B_dominates |-> f.v_all_leq /\ f.v_one_le]

\* The loop of Compare counting the strictly positive penalties.
Nviolations(X) == Cardinality({i \in DOMAIN X.Oor : X.Oor[i] > 0})

\* A mutant of CompareBody: on equal violation counts with incomparable penalty
\* vectors the objective vectors are not consulted.
CompareBodyNoOvaFallback(A, B) ==
    LET A_nviolations == Nviolations(A)
        B_nviolations == Nviolations(B)
    IN IF A_nviolations > 0
       THEN IF B_nviolations > 0
            THEN IF A_nviolations < B_nviolations
                 THEN [A_dominates |-> TRUE, B_dominates |-> FALSE]
                 ELSE IF B_nviolations < A_nviolations
                 THEN [A_dominates |-> FALSE, B_dominates |-> TRUE]
                 ELSE DblsParetoMin(A.Oor, B.Oor)
            ELSE [A_dominates |-> FALSE, B_dominates |-> TRUE]
       ELSE IF B_nviolations > 0
            THEN [A_dominates |-> TRUE, B_dominates |-> FALSE]
            ELSE DblsParetoMin(A.Ova, B.Ova)

\* Compare before its deferred function runs.
CompareBody(A, B) ==
    LET A_nviolations == Nviolations(A)
        B_nviolations == Nviolations(B)
        onOor == DblsParetoMin(A.Oor, B.Oor)
    IN IF A_nviolations > 0
       THEN IF B_nviolations > 0
            THEN IF A_nviolations < B_nviolations
                 THEN [A_dominates |-> TRUE, B_dominates |-> FALSE]
                 ELSE IF B_nviolations < A_nviolations
                 THEN [A_dominates |-> FALSE, B_dominates |-> TRUE]
                 ELSE IF ~onOor.A_dominates /\ ~onOor.B_dominates
                 THEN DblsParetoMin(A.Ova, B.Ova)
                 ELSE onOor
            ELSE [A_dominates |-> FALSE, B_dominates |-> TRUE]
       ELSE IF B_nviolations > 0
            THEN [A_dominates |-> TRUE, B_dominates |-> FALSE]
            ELSE DblsParetoMin(A.Ova, B.Ova)

\* Solution.Compare: the deferred function, installed when the flag is set,
\* runs after the body has set the named results and can only set them.
Compare(A, B, p) ==
    LET r == CompareBody(A, B)
    IN IF p.use_solution_comparedneigh
       THEN [A_dominates |-> r.A_dominates \/ (A.DistNeigh > B.DistNeigh),
             B_dominates |-> r.B_dominates \/ (B.DistNeigh > A.DistNeigh)]
       ELSE r

\* A mutant of Fight: the neighbour distance is consulted only inside the
\* equal-front branch, after the crowding distance.
FightNeighInsideFront(A, B, p, coin) ==
    LET c == Compare(A, B, p)
        won(b) == [A_wins |-> b, flipped |-> FALSE]
    IN IF c.A_dominates THEN won(TRUE)
       ELSE IF c.B_dominates THEN won(FALSE)
       ELSE IF p.use_solution_frontcomparison /\ A.FrontId = B.FrontId
               /\ A.DistCrowd > B.DistCrowd THEN won(TRUE)
       ELSE IF p.use_solution_frontcomparison /\ A.FrontId = B.FrontId
               /\ B.DistCrowd > A.DistCrowd THEN won(FALSE)
       ELSE IF p.use_solution_distneighfight /\ A.FrontId = B.FrontId
               /\ A.DistNeigh > B.DistNeigh THEN won(TRUE)
       ELSE IF p.use_solution_distneighfight /\ A.FrontId = B.FrontId
               /\ B.DistNeigh > A.DistNeigh THEN won(FALSE)
       ELSE [A_wins |-> coin, flipped |-> TRUE]

\* Solution.Fight; coin is the outcome of rnd.FlipCoin(0.5), and flipped tells
\* whether the call reached it.
Fight(A, B, p, coin) ==
    LET c == Compare(A, B, p)
        won(b) == [A_wins |-> b, flipped |-> FALSE]
    IN IF c.A_dominates THEN won(TRUE)
       ELSE IF c.B_dominates THEN won(FALSE)
       ELSE IF p.use_solution_frontcomparison /\ A.FrontId = B.FrontId
               /\ A.DistCrowd > B.DistCrowd THEN won(TRUE)
       ELSE IF p.use_solution_frontcomparison /\ A.FrontId = B.FrontId
               /\ B.DistCrowd > A.DistCrowd THEN won(FALSE)
       ELSE IF p.use_solution_distneighfight
               /\ A.DistNeigh > B.DistNeigh THEN won(TRUE)
       ELSE IF p.use_solution_distneighfight
               /\ B.DistNeigh > A.DistNeigh THEN won(FALSE)
       ELSE [A_wins |-> coin, flipped |-> TRUE]

\* The island variables of a specification that has no island.
IslandIdle ==
    /\ C = [GAtype |-> "none"] /\ ovaoor = <<>> /\ Pop = <<>> /\ Bkp = <<>>
    /\ ovamin = <<>> /\ ovamax = <<>> /\ OutOvas = <<>> /\ OutOors = <<>>
    /\ Nfeval = 0 /\ ncalls = 0 /\ time = 0 /\ pc = "none" /\ panic = "none"

NoRet == [A_dominates |-> FALSE, B_dominates |-> FALSE,
          A_wins |-> FALSE, flipped |-> FALSE]

---------------------------------------------------------------------------
(* Specification of Compare: two solutions and the flags are drawn, then   *)
(* Compare is applied.                                                     *)

InitCompare ==
    /\ solA \in PlainSolutions(TwoIdx, TwoIdx)
    /\ solB \in PlainSolutions(TwoIdx, TwoIdx)
    /\ prms \in {p \in Flags : ~p.use_solution_frontcomparison
                               /\ ~p.use_solution_distneighfight}
    /\ ret = NoRet
    /\ ppc = "input"
    /\ IslandIdle

CallCompare ==
    /\ ppc = "input"
    /\ ret' = [NoRet EXCEPT
                 !.A_dominates = Compare(solA, solB, prms).A_dominates,
                 !.B_dominates = Compare(solA, solB, prms).B_dominates]
    /\ ppc' = "compared"
    /\ UNCHANGED <<solA, solB, prms>>
    /\ UNCHANGED islVars

NextCompare == CallCompare

SpecCompare == InitCompare /\ [][NextCompare]_vars

(* Specification of Fight. *)

InitFight ==
    /\ solA \in Solutions(TwoIdx, NoIdx)
    /\ solB \in Solutions(TwoIdx, NoIdx)
    /\ prms \in Flags
    /\ ret = NoRet
    /\ ppc = "input"
    /\ IslandIdle

CallFight ==
    /\ ppc = "input"
    /\ \E coin \in BOOLEAN :
         LET f == Fight(solA, solB, prms, coin)
             c == Compare(solA, solB, prms)
         IN ret' = [A_dominates |-> c.A_dominates, B_dominates |-> c.B_dominates,
                    A_wins |-> f.A_wins, flipped |-> f.flipped]
    /\ ppc' = "fought"
    /\ UNCHANGED <<solA, solB, prms>>
    /\ UNCHANGED islVars

NextFight == CallFight

SpecFight == InitFight /\ [][NextFight]_vars

---------------------------------------------------------------------------
(* Claims about Compare and Fight *)

\* C1: Compare never returns A_dominates and B_dominates both true, whatever
\* the flags are.
C1_NeverBothDominate ==
    ppc = "compared" => ~(ret.A_dominates /\ ret.B_dominates)

\* The reference dominance of the four rules.
ParetoMinimises(u, v) ==
    /\ \A i \in DOMAIN u : u[i] <= v[i]
    /\ \E i \in DOMAIN u : u[i] < v[i]

RefDominates(X, Y) ==
    LET nx == Nviolations(X)
        ny == Nviolations(Y)
    IN CASE nx = 0 /\ ny = 0 -> ParetoMinimises(X.Ova, Y.Ova)
         [] nx > 0 /\ ny > 0 ->
               \/ nx < ny
               \/ /\ nx = ny
                  /\ \/ ParetoMinimises(X.Oor, Y.Oor)
                     \/ /\ ~ParetoMinimises(X.Oor, Y.Oor)
                        /\ ~ParetoMinimises(Y.Oor, X.Oor)
                        /\ ParetoMinimises(X.Ova, Y.Ova)
         [] OTHER -> nx = 0

C9_DominatorWinsFight ==
    ppc = "fought" =>
        /\ ret.A_dominates => ret.A_wins
        /\ ret.B_dominates => ~ret.A_wins

NeitherDominates == ~ret.A_dominates /\ ~ret.B_dominates

\* C10 as stated: with the distance tie-breaks enabled and neither dominating,
\* the distances decide only on equal front ids (crowding first, neighbour
\* distance next, the coin when both are equal); on different front ids the
\* coin alone decides.
C10_Original ==
    (/\ ppc = "fought" /\ NeitherDominates
     /\ prms.use_solution_frontcomparison /\ prms.use_solution_distneighfight) =>
        IF solA.FrontId = solB.FrontId
        THEN IF solA.DistCrowd # solB.DistCrowd
             THEN ~ret.flipped /\ ret.A_wins = (solA.DistCrowd > solB.DistCrowd)
             ELSE IF solA.DistNeigh # solB.DistNeigh
             THEN ~ret.flipped /\ ret.A_wins = (solA.DistNeigh > solB.DistNeigh)
             ELSE ret.flipped
        ELSE ret.flipped

\* C10 as amended: the crowding distance decides only under the front
\* comparison flag and on equal front ids; whenever it does not decide, the
\* neighbour distance decides under its own flag, also when the front ids
\* differ; the coin is flipped only when no enabled criterion separates the two.
C10_FightTieBreaks ==
    (ppc = "fought" /\ NeitherDominates) =>
        LET crowdDecides == /\ prms.use_solution_frontcomparison
                            /\ solA.FrontId = solB.FrontId
                            /\ solA.DistCrowd # solB.DistCrowd
            neighDecides == /\ prms.use_solution_distneighfight
                            /\ solA.DistNeigh # solB.DistNeigh
        IN IF crowdDecides
           THEN ~ret.flipped /\ ret.A_wins = (solA.DistCrowd > solB.DistCrowd)
           ELSE IF neighDecides
           THEN ~ret.flipped /\ ret.A_wins = (solA.DistNeigh > solB.DistNeigh)
           ELSE ret.flipped

\* Different fronts, the neighbour distance decides without a coin.
C10_Witness ==
    /\ ppc = "fought" /\ NeitherDominates
    /\ prms.use_solution_frontcomparison /\ prms.use_solution_distneighfight
    /\ solA.FrontId # solB.FrontId
    /\ solA.DistNeigh > solB.DistNeigh
    /\ ret.A_wins /\ ~ret.flipped

---------------------------------------------------------------------------
(* island.go: numbers *)

MaxNinds == 2    \* C.Ninds ranges over 1..MaxNinds
MaxFlt == 1      \* the float gene ranges over 0..MaxFlt (C.RangeFlt)
MaxTf == 1       \* C.Tf ranges over 1..MaxTf

RECURSIVE Gcd(_, _)
Gcd(a, b) == IF b = 0 THEN a ELSE Gcd(b, a % b)

RECURSIVE LcmUpTo(_)
LcmUpTo(n) == IF n <= 1 THEN 1 ELSE (LcmUpTo(n - 1) * n) \div Gcd(LcmUpTo(n - 1), n)

\* The largest denominator of a scaled value: a range of objective values, a
\* range of penalties (a negative one included), or a population length less 1.
MaxDen == MaxOva + MaxOor + MaxNinds

\* Scaled values are integer multiples of 1/Unit.
Unit == LcmUpTo(MaxDen)

\* INF = 1e+30, above every finite crowding distance.
INF == 1000 * Unit

\* A sequence given by a rule, written out element by element.
Listed(f) == SubSeq(f, 1, Len(f))

SeqMin(x) == CHOOSE m \in {x[i] : i \in DOMAIN x} : \A i \in DOMAIN x : m <= x[i]
SeqMax(x) == CHOOSE m \in {x[i] : i \in DOMAIN x} : \A i \in DOMAIN x : m >= x[i]

RECURSIVE SeqSum(_)
SeqSum(x) == IF x = <<>> THEN 0 ELSE x[Len(x)] + SeqSum(SubSeq(x, 1, Len(x) - 1))

\* utl.Scaling(s, x, 0, 1e-16, false, true): s[i] = (x[i]-xmin)/(xmax-xmin), or
\* i/(n-1) by index (0-based) when xmax-xmin < tol; nothing is done when n < 2.
Scaling(x) ==
    LET n == Len(x)
        xmin == SeqMin(x)
        xmax == SeqMax(x)
        dx == xmax - xmin
    IN IF n < 2 THEN [s |-> [i \in 1..n |-> 0], xmin |-> 0, xmax |-> 0]
       ELSE IF dx = 0
       THEN [s |-> Listed([i \in 1..n |-> ((i - 1) * Unit) \div (n - 1)]),
             xmin |-> xmin, xmax |-> xmax]
       ELSE [s |-> Listed([i \in 1..n |-> ((x[i] - xmin) * Unit) \div dx]),
             xmin |-> xmin, xmax |-> xmax]

\* sort.Sort on the short slices of the model is an insertion sort: an element
\* moves left past the elements with a strictly larger key.
InsertSorted(sorted, x) ==
    LET n == Len(sorted)
        k == Cardinality({i \in 1..n : sorted[i].key <= x.key})
    IN SubSeq(sorted, 1, k) \o <<x>> \o SubSeq(sorted, k + 1, n)

RECURSIVE InsertionSort(_)
InsertionSort(s) ==
    IF s = <<>> THEN <<>>
    ELSE InsertSorted(InsertionSort(SubSeq(s, 1, Len(s) - 1)), s[Len(s)])

\* The items of a sequence in ascending order of their keys.
SortedByKey(items, keys) ==
    LET srt == InsertionSort(Listed([i \in 1..Len(items) |-> [key |-> keys[i], val |-> items[i]]]))
    IN Listed([i \in 1..Len(items) |-> srt[i].val])

---------------------------------------------------------------------------
(* island.go: individuals, evaluation, ranking *)

\* An individual with one float gene: what the island reads of it.
NewIndividual(flt, nova, noor) ==
    [Flt |-> flt, Ovas |-> [i \in 1..nova |-> 0], Oors |-> [i \in 1..noor |-> 0],
     Demerit |-> 0, FrontId |-> 0, DistCrowd |-> 0]

\* Individual.CopyInto: the values are copied, the ranking metadata of the
\* target is kept (as Solution.CopyInto does).
CopyInto(A, B) == [B EXCEPT !.Flt = A.Flt, !.Ovas = A.Ovas, !.Oors = A.Oors]

\* IndCompareDet: the constraint-aware dominance of section 4.3.
IndCompareDet(A, B) ==
    CompareBody([Ova |-> A.Ovas, Oor |-> A.Oors], [Ova |-> B.Ovas, Oor |-> B.Oors])

\* One call of C.OvaOor on an individual.
Evaluate(ind) ==
    [ind EXCEPT !.Ovas = ovaoor[ind.Flt].Ovas, !.Oors = ovaoor[ind.Flt].Oors]

NegativeOor(ind) == \E j \in DOMAIN ind.Oors : ind.Oors[j] < 0

\* A mutant of CalcOvs: Nfeval is advanced by the length of the population,
\* also when the loop is left early.
CalcOvsCountsAll(pop) ==
    LET n == Len(pop)
        bad == {i \in 1..n : NegativeOor(Evaluate(pop[i]))}
        stop == IF bad = {} THEN n ELSE CHOOSE i \in bad : \A k \in bad : i <= k
    IN [pop |-> Listed([i \in 1..n |-> IF i <= stop THEN Evaluate(pop[i]) ELSE pop[i]]),
        calls |-> stop, nfeval |-> n, ok |-> bad = {}]

\* Island.CalcOvs: the individuals are evaluated in order, Nfeval counting each
\* call, until one comes back with a negative penalty (chk.Panic).
CalcOvs(pop) ==
    LET n == Len(pop)
        bad == {i \in 1..n : NegativeOor(Evaluate(pop[i]))}
        stop == IF bad = {} THEN n ELSE CHOOSE i \in bad : \A k \in bad : i <= k
    IN [pop |-> Listed([i \in 1..n |-> IF i <= stop THEN Evaluate(pop[i]) ELSE pop[i]]),
        calls |-> stop, nfeval |-> stop * 1, ok |-> bad = {}]

Dominates(A, B) == IndCompareDet(A, B).A_dominates

\* Fast non-dominated sorting: ndby[i] holds the individuals that dominate i;
\* front 0 holds the individuals nobody dominates, and the fronts are peeled
\* one after the other.
RECURSIVE PeelFronts(_, _, _, _)
PeelFronts(ndby, left, f, fronts) ==
    IF left = {} THEN fronts
    ELSE LET free == {i \in left : ndby[i] \cap left = {}}
             nd == IF free = {} THEN left ELSE free
         IN PeelFronts(ndby, left \ nd, f + 1,
                       Listed([i \in DOMAIN fronts |-> IF i \in nd THEN f ELSE fronts[i]]))

FrontIds(pop) ==
    PeelFronts(Listed([i \in DOMAIN pop |-> {j \in DOMAIN pop : Dominates(pop[j], pop[i])}]),
               DOMAIN pop, 0, Listed([i \in DOMAIN pop |-> 0]))

\* The members of a set of indices in ascending order.
RECURSIVE Ascending(_)
Ascending(S) ==
    IF S = {} THEN <<>>
    ELSE LET m == CHOOSE i \in S : \A k \in S : i <= k
         IN <<m>> \o Ascending(S \ {m})

\* Crowding distance of individual i within its front: INF when i is first or
\* last of the front sorted by some objective, else the sum over the objectives
\* of (next - previous) / (max - min).
CrowdDistance(pop, fronts, i) ==
    LET members == Ascending({k \in DOMAIN pop : fronts[k] = fronts[i]})
        n == Len(members)
        objectives == DOMAIN pop[i].Ovas
        order == Listed([j \in objectives |->
                    SortedByKey(members, Listed([m \in 1..n |-> pop[members[m]].Ovas[j]]))])
        pos == Listed([j \in objectives |-> CHOOSE m \in 1..n : order[j][m] = i])
        boundary == \E j \in objectives : pos[j] = 1 \/ pos[j] = n
        term(j) ==
            LET lo == pop[order[j][1]].Ovas[j]
                hi == pop[order[j][n]].Ovas[j]
            IN IF hi = lo THEN 0
               ELSE ((pop[order[j][pos[j] + 1]].Ovas[j] - pop[order[j][pos[j] - 1]].Ovas[j]) * Unit)
                        \div (hi - lo)
    IN IF boundary THEN INF
       ELSE SeqSum(Listed([j \in objectives |-> term(j)]))

\* Island.NomDomSortAndCalcDistances: front ids and crowding distances.
NomDomSortAndCalcDistances(pop) ==
    LET fronts == FrontIds(pop)
    IN Listed([i \in DOMAIN pop |->
                 [pop[i] EXCEPT !.FrontId = fronts[i],
                                !.DistCrowd = CrowdDistance(pop, fronts, i)]])

\* Population.SortByDemerit: ascending demerit.
SortByDemerit(pop) == SortedByKey(pop, Listed([i \in DOMAIN pop |-> pop[i].Demerit]))

\* The demerit CalcDemeritsCdistAndSort gives individual i: the front id, or
\* the scaled objective when there is one objective; for an individual with a
\* positive penalty, shift = 2 plus its scaled positive penalties instead.
DemeritOf(ranked, i, nova, sovas, soors) ==
    LET ind == ranked[i]
        base == IF nova > 1 THEN ind.FrontId * Unit
                ELSE SeqSum([j \in 1..nova |-> sovas[j][i]])
        positive == {j \in DOMAIN ind.Oors : ind.Oors[j] > 0}
        shift == 2 * Unit
    IN IF positive = {} THEN base
       ELSE shift + SeqSum([j \in DOMAIN ind.Oors |->
                               IF j \in positive THEN soors[j][i] ELSE 0])

\* Island.CalcDemeritsCdistAndSort.
CalcDemeritsCdistAndSort(pop, nova, noor) ==
    LET n == Len(pop)
        scov == Listed([j \in 1..nova |-> Scaling(Listed([i \in 1..n |-> pop[i].Ovas[j]]))])
        scor == Listed([j \in 1..noor |-> Scaling(Listed([i \in 1..n |-> pop[i].Oors[j]]))])
        sovas == Listed([j \in 1..nova |-> scov[j].s])
        soors == Listed([j \in 1..noor |-> scor[j].s])
        ranked == NomDomSortAndCalcDistances(pop)
        withDem == Listed([i \in 1..n |->
                      [ranked[i] EXCEPT !.Demerit = DemeritOf(ranked, i, nova, sovas, soors)]])
    IN [pop |-> SortByDemerit(withDem),
        ovamin |-> Listed([j \in 1..nova |-> scov[j].xmin]),
        ovamax |-> Listed([j \in 1..nova |-> scov[j].xmax])]

---------------------------------------------------------------------------
(* Specification of CalcDemeritsCdistAndSort: a population of DemN evaluated *)
(* individuals with two objectives and one penalty is drawn, then ranked.   *)
(* The individuals are listed in non-decreasing order of (penalty,          *)
(* objectives), one listing of each multiset.                               *)

DemN == 5

\* The evaluated individual number k: two objectives in 0..MaxOva+1 and one
\* penalty in 0..MaxOor.
DemBase == MaxOva + 2

DemIndividual(k) ==
    [NewIndividual(0, 2, 1) EXCEPT
        !.Ovas = <<(k \div DemBase) % DemBase, k % DemBase>>,
        !.Oors = <<k \div (DemBase * DemBase)>>]

DemLast == DemBase * DemBase * (MaxOor + 1) - 1

RECURSIVE NonDecreasing(_, _)
NonDecreasing(n, lo) ==
    IF n = 0 THEN {<<>>}
    ELSE UNION {{<<k>> \o t : t \in NonDecreasing(n - 1, k)} : k \in lo..DemLast}

InitDemerit ==
    /\ solA = <<>> /\ solB = <<>> /\ prms = <<>> /\ ret = NoRet /\ ppc = "none"
    /\ C = [GAtype |-> "none", Nova |-> 2, Noor |-> 1]
    /\ ovaoor = <<>>
    /\ \E ks \in NonDecreasing(DemN, 0) : Pop = [i \in 1..DemN |-> DemIndividual(ks[i])]
    /\ Bkp = <<>> /\ ovamin = <<>> /\ ovamax = <<>>
    /\ OutOvas = <<>> /\ OutOors = <<>>
    /\ Nfeval = 0 /\ ncalls = 0 /\ time = 0 /\ pc = "unranked" /\ panic = "none"

CallCalcDemerits ==
    /\ pc = "unranked"
    /\ \E r \in {CalcDemeritsCdistAndSort(Pop, C.Nova, C.Noor)} :
         Pop' = r.pop /\ ovamin' = r.ovamin /\ ovamax' = r.ovamax
    /\ pc' = "ranked"
    /\ UNCHANGED <<C, ovaoor, Bkp, OutOvas, OutOors, Nfeval, ncalls, time, panic>>
    /\ UNCHANGED solVars

NextDemerit == CallCalcDemerits

SpecDemerit == InitDemerit /\ [][NextDemerit]_vars

Feasible(ind) == \A j \in DOMAIN ind.Oors : ind.Oors[j] = 0

\* C4: after CalcDemeritsCdistAndSort every feasible individual has a strictly
\* smaller demerit than every infeasible one, so the feasible ones come first.
C4_FeasibleBeforeInfeasible ==
    pc = "ranked" =>
        \A i, k \in DOMAIN Pop :
            (Feasible(Pop[i]) /\ ~Feasible(Pop[k])) =>
                (Pop[i].Demerit < Pop[k].Demerit /\ i < k)

---------------------------------------------------------------------------
(* island.go: one island, from construction through the calls Run(0),       *)
(* Run(1), ..., Run(Tf) of the main loop. One float gene per individual,    *)
(* one objective, one penalty; the objective function ovaoor maps the gene  *)
(* to the values it writes, a negative penalty included.                    *)

\* The configurations. RegTol counts quarters, RegPct is a percentage; an
\* option that the configured update never reads is left off (AllVsAll outside
\* the crowd update, CdistOff outside its deterministic tournament).
Configs ==
    {c \in [GAtype : {"std", "crowd", "cold"}, AllVsAll : BOOLEAN, Elite : BOOLEAN,
            CompProb : BOOLEAN, CdistOff : BOOLEAN, RegTol : {0, 1}, RegPct : {50},
            Ninds : 1..MaxNinds, NparGrp : {2}, Nova : {1}, Noor : {1}, Tf : 1..MaxTf] :
        /\ (c.GAtype # "crowd" => ~c.AllVsAll)
        /\ ((c.GAtype # "crowd" \/ c.CompProb) => ~c.CdistOff)}

ObjectiveFunctions ==
    [0..MaxFlt -> [Ovas : [1..1 -> 0..MaxOva], Oors : [1..1 -> (0 - 1)..MaxOor]]]

Init ==
    /\ solA = <<>> /\ solB = <<>> /\ prms = <<>> /\ ret = NoRet /\ ppc = "none"
    /\ C \in Configs
    /\ ovaoor \in ObjectiveFunctions
    /\ Pop = <<>> /\ Bkp = <<>> /\ ovamin = <<>> /\ ovamax = <<>>
    /\ OutOvas = <<>> /\ OutOors = <<>>
    /\ Nfeval = 0 /\ ncalls = 0 /\ time = 0 /\ pc = "new" /\ panic = "none"

\* la.MatAlloc(m, n) with column 0 set from the first individual's values.
FirstRecord(vals, n) == [i \in DOMAIN vals |-> [t \in 1..n |-> IF t = 1 THEN vals[i] ELSE 0]]

NewIsland ==
    /\ pc = "new"
    /\ IF C.Ninds < 2 \/ C.Ninds % 2 # 0 \/ C.Ninds % C.NparGrp > 0
       THEN /\ panic' = "config" /\ pc' = "failed"
            /\ UNCHANGED <<Pop, Bkp, ovamin, ovamax, OutOvas, OutOors, Nfeval, ncalls>>
       ELSE \E genes \in [1..C.Ninds -> 0..MaxFlt] :
            \E fresh \in {[i \in 1..C.Ninds |-> NewIndividual(genes[i], C.Nova, C.Noor)]} :
            \E r \in {CalcOvs(fresh)} :
              /\ Bkp' = fresh
              /\ Nfeval' = Nfeval + r.nfeval
              /\ ncalls' = ncalls + r.calls
              /\ IF r.ok
                 THEN \E d \in {CalcDemeritsCdistAndSort(r.pop, C.Nova, C.Noor)} :
                        /\ Pop' = d.pop /\ ovamin' = d.ovamin /\ ovamax' = d.ovamax
                        /\ OutOvas' = FirstRecord(d.pop[1].Ovas, C.Tf)
                        /\ OutOors' = FirstRecord(d.pop[1].Oors, C.Tf)
                        /\ pc' = "update" /\ panic' = "none"
                 ELSE /\ Pop' = r.pop /\ panic' = "oor" /\ pc' = "failed"
                      /\ UNCHANGED <<ovamin, ovamax, OutOvas, OutOors>>
    /\ UNCHANGED <<C, ovaoor, time>>
    /\ UNCHANGED solVars

---------------------------------------------------------------------------
(* Island.Run: the update of the generation *)

Abs(x) == IF x < 0 THEN 0 - x ELSE x

\* rnd.IntGetGroups: the indices in a random order, cut into groups.
Perms(n) == {p \in [1..n -> 1..n] : \A i, k \in 1..n : p[i] = p[k] => i = k}

\* IndDistance(A, B, nil, nil, nil, nil, ovamin, ovamax, true): the phenotype
\* distance, each objective divided by its range (by 1e-15 when the range is 0).
IndDistance(A, B, omin, omax) ==
    SeqSum([j \in DOMAIN A.Ovas |->
              IF omax[j] = omin[j] THEN Abs(A.Ovas[j] - B.Ovas[j]) * INF
              ELSE (Abs(A.Ovas[j] - B.Ovas[j]) * Unit) \div (omax[j] - omin[j])])

\* Island.tournament; chance is the outcome of IndCompareProb or of the coin.
tournament(A, B, chance) ==
    IF C.CompProb THEN chance
    ELSE LET d == IndCompareDet(A, B)
         IN IF d.A_dominates THEN TRUE
            ELSE IF d.B_dominates THEN FALSE
            ELSE IF A.FrontId # B.FrontId \/ C.CdistOff THEN chance
            ELSE IF A.DistCrowd > B.DistCrowd THEN TRUE
            ELSE IF A.DistCrowd = B.DistCrowd THEN chance
            ELSE FALSE

\* Island.tournament_old: TRUE when A is the one copied into the back-buffer.
tournament_old(A, B, chance) ==
    IF C.CompProb THEN chance
    ELSE LET d == IndCompareDet(A, B)
         IN IF d.A_dominates THEN TRUE
            ELSE IF d.B_dominates THEN FALSE
            ELSE chance

\* The competitors of update_crowding with two parents per group: for group k
\* parent, offspring, offspring, parent. The parents are copies of the
\* individuals the groups name, the offspring carry the genes that crossover
\* and mutation gave them and the values the objective function wrote.
Competitors(groups, genes) ==
  Listed(
    [c \in 1..(2 * C.Ninds) |->
        LET k == (c - 1) \div 4
            slot == (c - 1) % 4
            blank == NewIndividual(0, C.Nova, C.Noor)
        IN IF slot = 0 THEN CopyInto(Pop[groups[2 * k + 1]], blank)
           ELSE IF slot = 3 THEN CopyInto(Pop[groups[2 * k + 2]], blank)
           ELSE Evaluate([blank EXCEPT !.Flt = genes[2 * k + slot]])])

\* The number of the match between competitors i < j of a round of nr.
MatchOf(i, j, nr) == (i - 1) * nr - ((i - 1) * i) \div 2 + (j - i)

\* The outcomes the six tournaments of a round can have: won[m] is TRUE when
\* the first competitor of match m wins.
Outcomes(round) ==
    LET may == Listed([m \in 1..6 |->
                   LET i == CHOOSE a \in 1..3 : \E b \in (a + 1)..4 : MatchOf(a, b, 4) = m
                       j == CHOOSE b \in (i + 1)..4 : MatchOf(i, b, 4) = m
                   IN {tournament(round[i], round[j], TRUE),
                       tournament(round[i], round[j], FALSE)}])
    IN {won \in [1..6 -> BOOLEAN] : \A m \in 1..6 : won[m] \in may[m]}

\* The all-versus-all scores of a round: a point to the winner of each match.
Scores(won) ==
    [c \in 1..4 |->
        Cardinality({j \in (c + 1)..4 : won[MatchOf(c, j, 4)]})
        + Cardinality({i \in 1..(c - 1) : ~won[MatchOf(i, c, 4)]})]

\* scores.Sort(): descending score, the winners are the first two.
Winners(round, won) ==
    LET val == Listed(Scores(won))
    IN SubSeq(SortedByKey(round, Listed([c \in 1..4 |-> 0 - val[c]])), 1, 2)

\* graph.Munkres on a 2 x 2 cost matrix: an assignment of least total cost.
Assignments(mdist) ==
    {l \in Perms(2) : \A m \in Perms(2) :
        mdist[1][l[1]] + mdist[2][l[2]] <= mdist[1][m[1]] + mdist[2][m[2]]}

\* What every update leaves alone.
UpdateFrame ==
    /\ UNCHANGED <<C, ovaoor, Pop, ovamin, ovamax, OutOvas, OutOors, time>>
    /\ UNCHANGED solVars

\* update_crowding, lines 413-521, for given groups and offspring genes: the
\* competitors are ranked, and for each group the pairs of individuals that
\* the tournaments (all-versus-all, or parent against matched offspring) can
\* send to the back-buffer.
CrowdSurvivors(groups, genes) ==
    LET comps == NomDomSortAndCalcDistances(Competitors(groups, genes))
        survivors(k) ==
            LET round == SubSeq(comps, 4 * k + 1, 4 * k + 4)
                cpparent == <<round[1], round[4]>>
                cpoffspr == <<round[2], round[3]>>
                mdist == Listed([i \in 1..2 |-> Listed([j \in 1..2 |->
                            IndDistance(cpparent[i], cpoffspr[j], ovamin, ovamax)])])
            IN IF C.AllVsAll
               THEN {Winners(round, won) : won \in Outcomes(round)}
               ELSE {Listed([i \in 1..2 |->
                        IF tournament(cpparent[i], cpoffspr[links[i]], chance[i])
                        THEN cpparent[i] ELSE cpoffspr[links[i]]]) :
                     links \in Assignments(mdist), chance \in [1..2 -> BOOLEAN]}
    IN Listed([k \in 1..(C.Ninds \div C.NparGrp) |-> survivors(k - 1)])

\* Island.update_crowding: per group two offspring are built and evaluated
\* (OvaOor is called on each, then Nfeval += 2), and the winners of the
\* tournaments are copied into the back-buffer one after the other.
update_crowding ==
    /\ pc = "update" /\ C.GAtype = "crowd"
    /\ \E groups \in Perms(C.Ninds), genes \in [1..C.Ninds -> 0..MaxFlt] :
       \E all \in {CrowdSurvivors(groups, genes)} :
       \E new \in [DOMAIN all -> UNION {all[k] : k \in DOMAIN all}] :
         /\ \A k \in DOMAIN all : new[k] \in all[k]
         /\ Bkp' = [i \in 1..C.Ninds |->
                      CopyInto(new[((i - 1) \div 2) + 1][((i - 1) % 2) + 1], Bkp[i])]
         /\ Nfeval' = Nfeval + Len(all) * 2
         /\ ncalls' = ncalls + Cardinality({c \in 1..(2 * C.Ninds) : (c - 1) % 4 \in {1, 2}})
    /\ pc' = "swap" /\ panic' = panic
    /\ UpdateFrame

\* update_crowding_old, lines 535-588, with two parents per group: one pair
\* of offspring, one matching round; for each group the pairs of winners, the
\* winner of parent group[i] in place i.
ColdSurvivors(groups, genes) ==
    LET blank == NewIndividual(0, C.Nova, C.Noor)
        survivors(k) ==
            LET parents == <<Pop[groups[2 * k + 1]], Pop[groups[2 * k + 2]]>>
                offspring == <<Evaluate([blank EXCEPT !.Flt = genes[2 * k + 1]]),
                               Evaluate([blank EXCEPT !.Flt = genes[2 * k + 2]])>>
                distR1 == Listed([i \in 1..2 |-> Listed([j \in 1..2 |->
                             IndDistance(parents[i], offspring[j], ovamin, ovamax)])])
            IN {Listed([i \in 1..2 |->
                   IF tournament_old(parents[i], offspring[links[i]], chance[i])
                   THEN parents[i] ELSE offspring[links[i]]]) :
                links \in Assignments(distR1), chance \in [1..2 -> BOOLEAN]}
    IN Listed([k \in 1..(C.Ninds \div C.NparGrp) |-> survivors(k - 1)])

\* Island.update_crowding_old: the winner of parent I is saved into Bkp[I].
update_crowding_old ==
    /\ pc = "update" /\ C.GAtype = "cold"
    /\ \E groups \in Perms(C.Ninds), genes \in [1..C.Ninds -> 0..MaxFlt] :
       \E all \in {ColdSurvivors(groups, genes)} :
       \E new \in [DOMAIN all -> UNION {all[k] : k \in DOMAIN all}] :
         /\ \A k \in DOMAIN all : new[k] \in all[k]
         /\ Bkp' = [I \in 1..C.Ninds |->
                      LET pos == CHOOSE q \in 1..C.Ninds : groups[q] = I
                      IN CopyInto(new[((pos - 1) \div 2) + 1][((pos - 1) % 2) + 1], Bkp[I])]
         /\ Nfeval' = Nfeval + Len(all) * 2
         /\ ncalls' = ncalls + Len(all) * Cardinality({"a", "b"})
    /\ pc' = "swap" /\ panic' = panic
    /\ UpdateFrame

\* Island.update_standard: RouletteSelect and SUSselect are asked for
\* len(selinds) = Ninds indices out of len(cumprob) = Ninds probabilities, and
\* chk.IntAssertLessThan(nsel, len(cumprob)) fails.
update_standard ==
    /\ pc = "update" /\ C.GAtype \notin {"crowd", "cold"}
    /\ LET nsel == C.Ninds
           ncum == C.Ninds
       IN IF nsel < ncum
          THEN \E genes \in [1..C.Ninds -> 0..MaxFlt] :
                 \E r \in {CalcOvs([i \in 1..C.Ninds |-> [Bkp[i] EXCEPT !.Flt = genes[i]]])} :
                    /\ Bkp' = r.pop
                    /\ Nfeval' = Nfeval + r.nfeval
                    /\ ncalls' = ncalls + r.calls
                    /\ IF r.ok THEN pc' = "swap" /\ panic' = panic
                       ELSE pc' = "failed" /\ panic' = "oor"
          ELSE /\ pc' = "failed" /\ panic' = "assert"
               /\ UNCHANGED <<Bkp, Nfeval, ncalls>>
    /\ UpdateFrame

---------------------------------------------------------------------------
(* Island.Run: after the update *)

\* Run, lines 351-353: the buffers are swapped and the new population ranked.
RunSwapSort ==
    /\ pc = "swap"
    /\ \E d \in {CalcDemeritsCdistAndSort(Bkp, C.Nova, C.Noor)} :
         Pop' = d.pop /\ ovamin' = d.ovamin /\ ovamax' = d.ovamax
    /\ Bkp' = Pop
    /\ pc' = "elite"
    /\ UNCHANGED <<C, ovaoor, OutOvas, OutOors, Nfeval, ncalls, time, panic>>
    /\ UNCHANGED solVars

\* A mutant of Elitism: the previous best is copied whatever the comparison.
ElitismAlways(pop, bkp) ==
    IF C.Elite
    THEN [pop EXCEPT ![C.Ninds] = CopyInto(bkp[1], pop[C.Ninds])]
    ELSE pop

\* Run, lines 355-362: the population after the elitism step.
Elitism(pop, bkp) ==
    IF C.Elite
    THEN LET prev_best == bkp[1]
             cur_worst == pop[C.Ninds]
             prev_dominates == IndCompareDet(prev_best, cur_worst).A_dominates
         IN IF prev_dominates
            THEN [pop EXCEPT ![C.Ninds] = CopyInto(prev_best, cur_worst)]
            ELSE pop
    ELSE pop

RunElitism ==
    /\ pc = "elite"
    /\ Pop' = Elitism(Pop, Bkp)
    /\ pc' = "regen"
    /\ UNCHANGED <<C, ovaoor, Bkp, ovamin, ovamax, OutOvas, OutOors, Nfeval, ncalls,
                   time, panic>>
    /\ UNCHANGED solVars

\* FltStat and the test averho < RegTol, with the standard deviation of the
\* gene over the population divided by 1 + its largest magnitude; RegTol
\* counts quarters: dev / (1 + lar) < RegTol / 4, squared and cleared of
\* denominators.
Homogeneous(pop) ==
    LET n == Len(pop)
        x == [i \in 1..n |-> pop[i].Flt]
        lar == SeqMax([i \in 1..n |-> Abs(x[i])])
        sumsq == SeqSum([i \in 1..n |-> x[i] * x[i]])
        sum == SeqSum(x)
    IN 16 * (n * sumsq - sum * sum) < n * (n - 1) * C.RegTol * C.RegTol * (1 + lar) * (1 + lar)

\* Island.Regenerate, the index of the first individual it redraws (0-based;
\* RegPct is held in hundredths): start := ninds - int(RegPct * ninds)
RegenStart(pop, regpct) == Len(pop) - (regpct * Len(pop)) \div 100

\* A Regenerate that redraws one individual more.
RedrawnOneMore(pop, genes, regpct) ==
    [i \in 1..Len(pop) |->
        IF i > RegenStart(pop, regpct) - 1 THEN [pop[i] EXCEPT !.Flt = genes[i]] ELSE pop[i]]

\* Island.Regenerate, its loop: SetFloat on the individuals from start on,
\* genes[i] being the value rnd.Float64(xmin, xmax) returns for individual i.
Redrawn(pop, genes, regpct) ==
    [i \in 1..Len(pop) |->
        IF i > RegenStart(pop, regpct) THEN [pop[i] EXCEPT !.Flt = genes[i]] ELSE pop[i]]

\* Run, lines 364-378, and Island.Regenerate: the genes of the last
\* int(RegPct * ninds) individuals are redrawn, the whole population is
\* evaluated again and ranked.
RunRegen ==
    /\ pc = "regen"
    /\ IF Homogeneous(Pop)
       THEN \E genes \in [1..C.Ninds -> 0..MaxFlt] :
                 /\ \A i \in 1..RegenStart(Pop, C.RegPct) : genes[i] = 0
                 /\ \E r \in {CalcOvs(Redrawn(Pop, genes, C.RegPct))} :
                      /\ Nfeval' = Nfeval + r.nfeval
                      /\ ncalls' = ncalls + r.calls
                      /\ IF r.ok
                         THEN \E d \in {CalcDemeritsCdistAndSort(r.pop, C.Nova, C.Noor)} :
                                /\ Pop' = d.pop /\ ovamin' = d.ovamin /\ ovamax' = d.ovamax
                                /\ pc' = "record" /\ panic' = panic
                         ELSE /\ Pop' = r.pop /\ pc' = "failed" /\ panic' = "oor"
                              /\ UNCHANGED <<ovamin, ovamax>>
       ELSE /\ pc' = "record"
            /\ UNCHANGED <<Pop, ovamin, ovamax, Nfeval, ncalls, panic>>
    /\ UNCHANGED <<C, ovaoor, Bkp, OutOvas, OutOors, time>>
    /\ UNCHANGED solVars

\* Run, lines 390-397: the values of Pop[0] are stored at column time of the
\* output series, which NewIsland allocated with Tf columns; then the main
\* loop moves to the next time, up to Tf.
RunRecord ==
    /\ pc = "record"
    /\ IF \E i \in DOMAIN OutOvas : time >= Len(OutOvas[i])
       THEN /\ pc' = "failed" /\ panic' = "index"
            /\ UNCHANGED <<OutOvas, OutOors, time>>
       ELSE /\ OutOvas' = [i \in DOMAIN OutOvas |->
                             [OutOvas[i] EXCEPT ![time + 1] = Pop[1].Ovas[i]]]
            /\ OutOors' = [i \in DOMAIN OutOors |->
                             [OutOors[i] EXCEPT ![time + 1] = Pop[1].Oors[i]]]
            /\ time' = time + 1
            /\ pc' = IF time < C.Tf THEN "update" ELSE "done"
            /\ panic' = panic
    /\ UNCHANGED <<C, ovaoor, Pop, Bkp, ovamin, ovamax, Nfeval, ncalls>>
    /\ UNCHANGED solVars

Next ==
    \/ NewIsland
    \/ update_crowding
    \/ update_crowding_old
    \/ update_standard
    \/ RunSwapSort
    \/ RunElitism
    \/ RunRegen
    \/ RunRecord

Spec == Init /\ [][Next]_vars

---------------------------------------------------------------------------
(* The island: properties *)

\* The objective and penalty values of an individual, as a solution.
Values(ind) == [Ova |-> ind.Ovas, Oor |-> ind.Oors]

\* C3: as long as no step of the island has failed, every penalty of every
\* individual of the current population is >= 0 (a negative penalty written
\* by the objective function makes the evaluating step fail).
C3_PenaltiesNonNegative ==
    panic = "none" =>
        \A i \in DOMAIN Pop : \A j \in DOMAIN Pop[i].Oors : Pop[i].Oors[j] >= 0

\* B is A with the genes, objectives and penalties of individual src.
OverwrittenWith(B, A, src) ==
    /\ B.Flt = src.Flt /\ B.Ovas = src.Ovas /\ B.Oors = src.Oors
    /\ B.Demerit = A.Demerit /\ B.FrontId = A.FrontId /\ B.DistCrowd = A.DistCrowd

C6_RecordIsBest ==
    (pc \in {"update", "done"} /\ time > 0) =>
        \E b \in DOMAIN Pop :
            /\ \A i \in DOMAIN OutOvas : OutOvas[i][time] = Pop[b].Ovas[i]
            /\ \A i \in DOMAIN OutOors : OutOors[i][time] = Pop[b].Oors[i]
            /\ \A k \in DOMAIN Pop :
                  /\ ~RefDominates(Values(Pop[k]), Values(Pop[b]))
                  /\ Pop[k].Demerit >= Pop[b].Demerit

\* C7: the output series of a constructed island has Tf + 1 columns per
\* objective and per penalty, and no Run(t) with 0 <= t <= Tf fails on an
\* index out of range.
C7_SeriesHoldsEveryTime ==
    /\ \A i \in DOMAIN OutOvas : Len(OutOvas[i]) = C.Tf + 1
    /\ \A i \in DOMAIN OutOors : Len(OutOors[i]) = C.Tf + 1
    /\ panic # "index"

\* C8: Nfeval equals the number of calls made to the objective function.
C8_NfevalCountsCalls == Nfeval = ncalls

\* The island has evaluated its initial population, the offspring of a
\* crowding update, and the population again in a regeneration.
C8_Witness ==
    /\ pc = "record" /\ C.GAtype \in {"crowd", "cold"}
    /\ Homogeneous(Bkp) \/ Homogeneous(Pop)
    /\ Nfeval >= 2 * C.Ninds + 2
    /\ ncalls = Nfeval

---------------------------------------------------------------------------
(* Parameters.CalcDerived.  The sources hold two versions of it, the one    *)
(* with groups of solutions (params.go) and the one with cpus (island.go);  *)
(* a build has one of them, and both are modelled.  A specification of      *)
(* CalcDerived draws a Parameters structure and applies the version it was  *)
(* drawn for.  Slices of bounds are sequences of small integers.            *)

MaxNsol == 8     \* Nsol ranges over 0..MaxNsol
MaxNgrp == 2     \* Ngrp ranges over 0..MaxNgrp
MaxNcpu == 5     \* Ncpu ranges over 0..MaxNcpu

FltBounds == {<<>>, <<0>>, <<1>>}
IntBounds == {<<>>, <<0>>}

\* Parameters before CalcDerived: the derived fields hold Go's zero values.
ParametersOf(ver, nova, nsol, ngrp, ncpu, tf, dtexc, pll, fmin, fmax, imin, imax) ==
    [ver |-> ver, Nova |-> nova, Nsol |-> nsol, Ngrp |-> ngrp, Ncpu |-> ncpu,
     Tf |-> tf, DtExc |-> dtexc, Pll |-> pll,
     FltMin |-> fmin, FltMax |-> fmax, IntMin |-> imin, IntMax |-> imax,
     NsolTot |-> 0, Nflt |-> 0, Nint |-> 0, DelFlt |-> <<>>, DelInt |-> <<>>,
     seeded |-> FALSE]

ParametersGrp ==
    {ParametersOf("grp", nova, nsol, ngrp, 0, 1, 1, TRUE, fmin, fmax, imin, imax) :
        nova \in 0..1, nsol \in 0..MaxNsol, ngrp \in 0..MaxNgrp,
        fmin \in FltBounds, fmax \in FltBounds, imin \in IntBounds, imax \in IntBounds}

ParametersCpu ==
    {ParametersOf("cpu", nova, nsol, 0, ncpu, tf, 1, pll, fmin, fmax, imin, imax) :
        nova \in 0..1, nsol \in 0..MaxNsol, ncpu \in 0..MaxNcpu, tf \in 0..1,
        pll \in BOOLEAN,
        fmin \in FltBounds, fmax \in FltBounds, imin \in IntBounds, imax \in IntBounds}

\* The common tail of both versions: the derived sizes and ranges, and the
\* seeding of the random numbers generator.
DerivedRanges(o) ==
    LET o1 == [o EXCEPT !.Nflt = Len(o.FltMin), !.Nint = Len(o.IntMin)]
    IN IF o1.Nflt = 0 /\ o1.Nint = 0 THEN [o |-> o1, panic |-> "bounds"]
       ELSE IF Len(o.FltMax) # o1.Nflt THEN [o |-> o1, panic |-> "assert"]
       ELSE IF Len(o.IntMax) # o1.Nint THEN [o |-> o1, panic |-> "assert"]
       ELSE [o |-> [o1 EXCEPT
                       !.DelFlt = [i \in 1..o1.Nflt |-> o.FltMax[i] - o.FltMin[i]],
                       !.DelInt = [i \in 1..o1.Nint |-> o.IntMax[i] - o.IntMin[i]],
                       !.seeded = TRUE],
             panic |-> "none"]

\* params.go: Nsol solutions in each of Ngrp groups.
CalcDerived(o) ==
    IF o.Nova < 1 THEN [o |-> o, panic |-> "nova"]
    ELSE IF o.Ngrp < 1 THEN [o |-> o, panic |-> "ngrp"]
    ELSE IF o.Nsol < 2 \/ o.Nsol % 2 # 0 THEN [o |-> o, panic |-> "nsol"]
    ELSE LET o1 == [o EXCEPT !.NsolTot = o.Nsol * o.Ngrp]
         IN IF o1.NsolTot % 2 # 0 THEN [o |-> o1, panic |-> "nsoltot"]
            ELSE DerivedRanges(o1)

\* island.go: Nsol solutions in total, Ncpu cpus.
CalcDerivedNcpu(o) ==
    IF o.Nova < 1 THEN [o |-> o, panic |-> "nova"]
    ELSE IF o.Nsol < 6 THEN [o |-> o, panic |-> "nsol"]
    ELSE LET o1 == IF o.Ncpu < 2
                   THEN [o EXCEPT !.Ncpu = 1, !.Pll = FALSE, !.DtExc = 1]
                   ELSE o
         IN IF o1.Ncpu > o1.Nsol \div 2 THEN [o |-> o1, panic |-> "ncpu"]
            ELSE LET o2 == [o1 EXCEPT !.Tf = IF o1.Tf < 1 THEN 1 ELSE o1.Tf,
                                      !.DtExc = IF o1.DtExc < 1 THEN 1 ELSE o1.DtExc]
                 IN DerivedRanges(o2)

NoOutcome == [panic |-> "none", before |-> <<>>]

InitParams ==
    /\ solA = <<>> /\ solB = <<>>
    /\ prms \in ParametersGrp \cup ParametersCpu
    /\ ret = NoOutcome
    /\ ppc = "read"
    /\ IslandIdle

\* ret keeps the outcome and the structure CalcDerived was called on.
CallCalcDerived ==
    /\ ppc = "read" /\ prms.ver = "grp"
    /\ \E r \in {CalcDerived(prms)} :
         /\ prms' = r.o
         /\ ret' = [panic |-> r.panic, before |-> prms]
         /\ ppc' = IF r.panic = "none" THEN "derived" ELSE "failed"
    /\ UNCHANGED <<solA, solB>>
    /\ UNCHANGED islVars

CallCalcDerivedNcpu ==
    /\ ppc = "read" /\ prms.ver = "cpu"
    /\ \E r \in {CalcDerivedNcpu(prms)} :
         /\ prms' = r.o
         /\ ret' = [panic |-> r.panic, before |-> prms]
         /\ ppc' = IF r.panic = "none" THEN "derived" ELSE "failed"
    /\ UNCHANGED <<solA, solB>>
    /\ UNCHANGED islVars

NextParams == CallCalcDerived \/ CallCalcDerivedNcpu

SpecParams == InitParams /\ [][NextParams]_vars

\* C11: CalcDerived fails for every configuration whose Nsol is odd.
C11_OddNsolFails == ppc = "derived" => prms.Nsol % 2 = 0

\* C12: CalcDerived fails for every configuration with Nsol < 6, and then
\* leaves the structure as it was.
C12_SmallNsolFails ==
    (ppc # "read" /\ ret.before.Nsol < 6) => (ppc = "failed" /\ prms = ret.before)

---------------------------------------------------------------------------
(* The random draws of a generation step.  The island code draws through    *)
(* the package-level functions of gosl/rnd and of math/rand: it passes no   *)
(* generator and the Island structure has none, so a draw reads and         *)
(* advances the generator of the package, whichever island makes it.       *)
(* Islands step concurrently: their draws interleave.                      *)

NIslands == 2    \* the islands of the archipelago are 1..NIslands
MaxSeed == 3     \* Parameters.Seed ranges over 1..MaxSeed
GenMod == 8      \* a generator has GenMod internal states

Islands == 1..NIslands

\* The generators there are: the one of gosl/rnd and the one of math/rand.
Generators == {"rnd", "rand"}

\* rnd.Init(seed), called once by CalcDerived.
SeededGenerators(seed) ==
    [g \in Generators |-> [state |-> seed % GenMod, users |-> {}]]

\* One draw made by island i from package generator g.
Drawn(gens, g, i) ==
    [gens EXCEPT ![g] = [state |-> (5 * gens[g].state + 1) % GenMod,
                         users |-> gens[g].users \cup {i}]]

InitRandom ==
    /\ solA = <<>> /\ solB = <<>>
    /\ \E seed \in 1..MaxSeed :
         /\ ret = SeededGenerators(seed)
         /\ prms \in [Seed : {seed},
                      GAtype : [Islands -> {"crowd", "std"}],
                      Rws : BOOLEAN]
    /\ ppc = [i \in Islands |-> "update"]
    /\ IslandIdle

RandomFrame == UNCHANGED <<solA, solB, prms>> /\ UNCHANGED islVars

\* update_crowding, update_crowding_old: rnd.IntGetGroups
DrawGroups(i) ==
    /\ ppc[i] = "update" /\ prms.GAtype[i] = "crowd"
    /\ ret' = Drawn(ret, "rnd", i)
    /\ ppc' = [ppc EXCEPT ![i] = "tournament"]
    /\ RandomFrame

\* tournament, tournament_old: rnd.FlipCoin
DrawFlipCoin(i) ==
    /\ ppc[i] = "tournament"
    /\ ret' = Drawn(ret, "rnd", i)
    /\ ppc' = [ppc EXCEPT ![i] = "regenerate"]
    /\ RandomFrame

\* update_standard with C.Rws: RouletteSelect draws rand.Float64
DrawRoulette(i) ==
    /\ ppc[i] = "update" /\ prms.GAtype[i] = "std" /\ prms.Rws
    /\ ret' = Drawn(ret, "rand", i)
    /\ ppc' = [ppc EXCEPT ![i] = "pairs"]
    /\ RandomFrame

\* update_standard without C.Rws: SUSselect draws rnd.Float64
DrawSUS(i) ==
    /\ ppc[i] = "update" /\ prms.GAtype[i] = "std" /\ ~prms.Rws
    /\ ret' = Drawn(ret, "rnd", i)
    /\ ppc' = [ppc EXCEPT ![i] = "pairs"]
    /\ RandomFrame

\* FilterPairs: rnd.IntGetShuffled, rnd.IntShuffle
DrawShuffle(i) ==
    /\ ppc[i] = "pairs"
    /\ ret' = Drawn(ret, "rnd", i)
    /\ ppc' = [ppc EXCEPT ![i] = "regenerate"]
    /\ RandomFrame

\* Regenerate: rnd.Float64
DrawRegenerate(i) ==
    /\ ppc[i] = "regenerate"
    /\ ret' = Drawn(ret, "rnd", i)
    /\ ppc' = [ppc EXCEPT ![i] = "update"]
    /\ RandomFrame

NextRandom ==
    \E i \in Islands :
        \/ DrawGroups(i)
        \/ DrawFlipCoin(i)
        \/ DrawRoulette(i)
        \/ DrawSUS(i)
        \/ DrawShuffle(i)
        \/ DrawRegenerate(i)

SpecRandom == InitRandom /\ [][NextRandom]_vars

\* C13: no generator is read or advanced by more than one island.
C13_GeneratorsNotShared ==
    \A g \in Generators : Cardinality(ret[g].users) <= 1

---------------------------------------------------------------------------
(* Solution.CopyInto.  The slices of a solution are allocated by           *)
(* NewSolution, one array each, so the slices of two solutions never       *)
(* overlap; A and B may be the same solution.                              *)

\* Go's copy(dst, src): the first min(len(dst), len(src)) elements.
GoCopy(dst, src) ==
    [i \in DOMAIN dst |-> IF i <= Len(src) THEN src[i] ELSE dst[i]]

\* A copy that accumulates instead of overwriting.
SolutionCopyIntoAdds(A, B) ==
    [B EXCEPT !.Id = A.Id,
              !.Ova = [i \in DOMAIN B.Ova |-> B.Ova[i] + A.Ova[i]],
              !.Oor = GoCopy(B.Oor, A.Oor),
              !.Flt = GoCopy(B.Flt, A.Flt),
              !.Int = GoCopy(B.Int, A.Int)]

\* Solution.CopyInto: the state of B after A.CopyInto(B).
SolutionCopyInto(A, B) ==
    [B EXCEPT !.Id = A.Id,
              !.Ova = GoCopy(B.Ova, A.Ova),
              !.Oor = GoCopy(B.Oor, A.Oor),
              !.Flt = GoCopy(B.Flt, A.Flt),
              !.Int = GoCopy(B.Int, A.Int)]

\* Solutions of one shape: two objectives, one penalty, one float, one int,
\* and the front id standing for the metrics CopyInto does not touch.
CopySolutions ==
    [Id : 0..1, Ova : Vec(TwoIdx, 0..MaxOva), Oor : Vec(OneIdx, 0..MaxOor),
     Flt : Vec(OneIdx, 0..MaxFlt), Int : Vec(OneIdx, 0..1), FrontId : 0..MaxFront]

InitCopy ==
    /\ solA \in CopySolutions
    /\ solB \in CopySolutions
    /\ prms \in [same : BOOLEAN]          \* A and B are the same solution
    /\ prms.same => solA = solB
    /\ ret = [A |-> solA, B |-> solB, before |-> solB]
    /\ ppc = "input"
    /\ IslandIdle

\* A.CopyInto(B); ret keeps B as it was before the first call, and A and B
\* as the first call left them.
CallCopyInto ==
    /\ ppc \in {"input", "once"}
    /\ \E b \in {SolutionCopyInto(solA, solB)} :
         /\ solB' = b
         /\ solA' = IF prms.same THEN b ELSE solA
         /\ ret' = IF ppc = "input"
                   THEN [A |-> solA', B |-> b, before |-> solB]
                   ELSE ret
    /\ ppc' = IF ppc = "input" THEN "once" ELSE "twice"
    /\ UNCHANGED prms
    /\ UNCHANGED islVars

NextCopy == CallCopyInto

SpecCopy == InitCopy /\ [][NextCopy]_vars

\* C14: the second CopyInto(A, B) changes neither A nor B.
C14_CopyIntoIdempotent ==
    ppc = "twice" => (solA = ret.A /\ solB = ret.B)

\* Two calls were made on a B that differed from A in every copied field and
\* in its metrics: B holds A's data and its own front id.
C14_Witness ==
    /\ ppc = "twice"
    /\ ret.before.Id # solA.Id /\ ret.before.Ova # solA.Ova
    /\ ret.before.Oor # solA.Oor /\ ret.before.Flt # solA.Flt
    /\ ret.before.Int # solA.Int
    /\ solB.Ova = solA.Ova /\ solB.Id = solA.Id
    /\ solB.FrontId # solA.FrontId /\ solB.FrontId = ret.before.FrontId

---------------------------------------------------------------------------
(* FilterPairs.  A list of selected indices is drawn, then FilterPairs     *)
(* fills A and B.  The shuffles of rnd.IntGetShuffled and rnd.IntShuffle   *)
(* are any permutations of the pool.                                       *)

MaxSel == 4      \* len(selinds) is 2 or 4 .. MaxSel (even)
MaxIdx == 2      \* selected indices range over 0..MaxIdx

\* The pool aux after a shuffle: the selections, permuted by p.
Shuffled(selinds, p) == [k \in DOMAIN selinds |-> selinds[p[k]]]

\* The loop over aux taking the first s # a, without the test s # a.
FirstOtherUntested(aux, a, b) == aux[1]

\* for _, s := range aux { if s != a { b = s; break } }
FirstOther(aux, a, b) ==
    IF \E k \in DOMAIN aux : aux[k] # a
    THEN aux[CHOOSE k \in DOMAIN aux :
                /\ aux[k] # a
                /\ \A m \in 1..(k - 1) : aux[m] = a]
    ELSE b

\* The second parents pair i can get, over the shuffles of the pool.
SecondParents(selinds, i) ==
    LET a == selinds[2 * i - 1]
        b == selinds[2 * i]
    IN IF a = b
       THEN {FirstOther(Shuffled(selinds, p), a, b) : p \in Perms(Len(selinds))}
       ELSE {b}

\* The pairs FilterPairs produces when the shuffles give pair i the second
\* parent second[i].
FilterPairs(selinds, second) ==
    [A |-> [i \in 1..(Len(selinds) \div 2) |-> selinds[2 * i - 1]],
     B |-> second]

SelectionLists ==
    UNION {[1..n -> 0..MaxIdx] : n \in {m \in 2..MaxSel : m % 2 = 0}}

InitPairs ==
    /\ solA = <<>> /\ solB = <<>>      \* the output lists A and B
    /\ prms \in SelectionLists         \* selinds
    /\ ret = NoRet
    /\ ppc = "selected"
    /\ IslandIdle

CallFilterPairs ==
    /\ ppc = "selected"
    /\ \E choices \in {[i \in 1..(Len(prms) \div 2) |-> SecondParents(prms, i)]} :
         \E second \in {b \in [1..(Len(prms) \div 2) -> 0..MaxIdx] :
                            \A i \in DOMAIN b : b[i] \in choices[i]} :
            \E r \in {FilterPairs(prms, second)} :
               /\ solA' = Listed(r.A)
               /\ solB' = Listed(r.B)
    /\ ppc' = "filtered"
    /\ UNCHANGED <<prms, ret>>
    /\ UNCHANGED islVars

NextPairs == CallFilterPairs

SpecPairs == InitPairs /\ [][NextPairs]_vars

AllSame(selinds) == \A j, k \in DOMAIN selinds : selinds[j] = selinds[k]

---------------------------------------------------------------------------
(* SUSselect.  Probabilities and pointers are integer multiples of         *)
(* 1/SusScale, SusScale being a multiple of every nsel, so that pb, dp and  *)
(* the comparisons pb > cumprob[j] are exact; indices are 0-based as in    *)
(* the code.                                                               *)

MaxNsel == 3     \* len(selinds) ranges over 1..MaxNsel
MaxNcum == 4     \* len(cumprob) ranges over 2..MaxNcum

SusScale == LcmUpTo(MaxNsel)

\* CumSum: cs[i] = p[1] + ... + p[i]
CumSum(p) == [i \in DOMAIN p |-> SeqSum(SubSeq(p, 1, i))]

\* The probabilities of n individuals: n non-negative values summing to one.
Probabilities(n) ==
    {p \in [1..n -> 0..SusScale] : SeqSum(p) = SusScale}

\* j = 0; for pb > cumprob[j] { j += 1 }: the j the scan stops at, or -1 when
\* it runs past the end of cumprob.
RECURSIVE SUSscan(_, _, _)
SUSscan(cumprob, pb, j) ==
    IF j >= Len(cumprob) THEN 0 - 1
    ELSE IF pb > cumprob[j + 1] THEN SUSscan(cumprob, pb, j + 1)
    ELSE j

\* The loop of SUSselect from iteration i on.
RECURSIVE SUSloop(_, _, _, _, _)
SUSloop(selinds, cumprob, pb, dp, i) ==
    IF i >= Len(selinds) THEN [selinds |-> selinds, panic |-> "none"]
    ELSE LET j == SUSscan(cumprob, pb, 0)
         IN IF j < 0 THEN [selinds |-> selinds, panic |-> "index"]
            ELSE SUSloop([selinds EXCEPT ![i + 1] = j], cumprob, pb + dp, dp, i + 1)

\* SUSselect with the first pointer pb >= 0.
SUSselect(selinds, cumprob, pb) ==
    IF ~(Len(selinds) < Len(cumprob))
    THEN [selinds |-> selinds, panic |-> "assert"]
    ELSE SUSloop(selinds, cumprob, pb, SusScale \div Len(selinds), 0)

\* selinds is a slice of nsel zeros; pb = -1 asks SUSselect to draw it.
InitSUS ==
    /\ \E nsel \in 1..MaxNsel :
         /\ solA = [i \in 1..nsel |-> 0]
         /\ \E ncum \in 2..MaxNcum :
               \E p \in Probabilities(ncum) :
                  prms = [prob |-> p, cumprob |-> Listed(CumSum(p))]
         /\ \E pb \in (0 - 1)..((SusScale \div nsel) - 1) :
               ret = [pb |-> pb, panic |-> "none"]
    /\ solB = <<>>
    /\ ppc = "input"
    /\ IslandIdle

\* ret.pb keeps the first pointer that was used.
CallSUSselect ==
    /\ ppc = "input"
    /\ \E pb \in IF ret.pb < 0 THEN 0..((SusScale \div Len(solA)) - 1) ELSE {ret.pb} :
         \E r \in {SUSselect(solA, prms.cumprob, pb)} :
            /\ solA' = r.selinds
            /\ ret' = [pb |-> pb, panic |-> r.panic]
    /\ ppc' = "selected"
    /\ UNCHANGED <<solB, prms>>
    /\ UNCHANGED islVars

NextSUS == CallSUSselect

SpecSUS == InitSUS /\ [][NextSUS]_vars

TimesSelected(selinds, j) == Cardinality({i \in DOMAIN selinds : selinds[i] = j})

\* C16: SUSselect makes its n selections without indexing past the end of
\* cumprob; the selected indices are non-decreasing and index j is selected
\* between floor(n*p_j) and ceil(n*p_j) times.
C16_SUSselect ==
    ppc = "selected" =>
        /\ ret.panic = "none"
        /\ \A i \in 1..(Len(solA) - 1) : solA[i] <= solA[i + 1]
        /\ \A j \in 0..(Len(prms.prob) - 1) :
             /\ TimesSelected(solA, j) >= (Len(solA) * prms.prob[j + 1]) \div SusScale
             /\ TimesSelected(solA, j) <=
                   (Len(solA) * prms.prob[j + 1] + SusScale - 1) \div SusScale

---------------------------------------------------------------------------
(* Island.Regenerate on its own: an island with an evaluated and ranked    *)
(* population is drawn, then Regenerate is called on it.                   *)

RegNinds == 4    \* the population has 2, 4 .. RegNinds individuals

\* C.RegPct, in hundredths
RegPcts == {0, 30, 50, 100}

InitRegen ==
    /\ solA = <<>> /\ solB = <<>> /\ prms = <<>> /\ ppc = "none"
    /\ ovaoor \in ObjectiveFunctions
    /\ \E ninds \in {n \in 2..RegNinds : n % 2 = 0} :
         /\ C \in [GAtype : {"none"}, Nova : {1}, Noor : {1}, Ninds : {ninds},
                   RegPct : RegPcts]
         /\ \E genes \in [1..ninds -> 0..MaxFlt] :
            \E r \in {CalcOvs([i \in 1..ninds |-> NewIndividual(genes[i], 1, 1)])} :
               /\ r.ok
               /\ Nfeval = r.nfeval /\ ncalls = r.calls
               /\ \E d \in {CalcDemeritsCdistAndSort(r.pop, 1, 1)} :
                    /\ Pop = d.pop /\ ovamin = d.ovamin /\ ovamax = d.ovamax
                    /\ ret = [before |-> d.pop]
    /\ Bkp = <<>> /\ OutOvas = <<>> /\ OutOors = <<>>
    /\ time = 0 /\ pc = "ranked" /\ panic = "none"

\* Island.Regenerate: the redraw, CalcOvs on the whole population, and the
\* ranking.  ret.before is the population it was called on.
CallRegenerate ==
    /\ pc = "ranked"
    /\ \E genes \in [1..Len(Pop) -> 0..MaxFlt] :
         /\ \A i \in 1..RegenStart(Pop, C.RegPct) : genes[i] = 0
         /\ \E r \in {CalcOvs(Redrawn(Pop, genes, C.RegPct))} :
              /\ Nfeval' = Nfeval + r.nfeval
              /\ ncalls' = ncalls + r.calls
              /\ IF r.ok
                 THEN \E d \in {CalcDemeritsCdistAndSort(r.pop, C.Nova, C.Noor)} :
                        /\ Pop' = d.pop /\ ovamin' = d.ovamin /\ ovamax' = d.ovamax
                        /\ pc' = "regenerated" /\ panic' = panic
                 ELSE /\ Pop' = r.pop /\ pc' = "failed" /\ panic' = "oor"
                      /\ UNCHANGED <<ovamin, ovamax>>
    /\ UNCHANGED <<C, ovaoor, Bkp, OutOvas, OutOors, time>>
    /\ UNCHANGED solVars

NextRegen == CallRegenerate

SpecRegen == InitRegen /\ [][NextRegen]_vars

\* The number of individuals of pop whose float gene is g.
WithGene(pop, g) == Cardinality({i \in DOMAIN pop : pop[i].Flt = g})

\* C17: after Regenerate the population has the size it had; the individuals
\* before position start = Ninds - floor(RegPct * Ninds) of the population it
\* was called on are all in it with their genes (at the places the ranking
\* gives them), and the other floor(RegPct * Ninds) individuals have genes
\* inside the configured range.
C17_RegenerateFrame ==
    pc \in {"regenerated", "failed"} =>
        /\ Len(Pop) = Len(ret.before)
        /\ \E p \in Perms(Len(Pop)) :
             \A i \in DOMAIN Pop :
                IF i <= Len(Pop) - (C.RegPct * Len(Pop)) \div 100
                THEN Pop[p[i]].Flt = ret.before[i].Flt
                ELSE Pop[p[i]].Flt \in 0..MaxFlt

\* Half of a population of four with equal genes was regenerated, and both
\* redrawn genes differ from the old one.
C17_Witness ==
    /\ pc = "regenerated" /\ Len(Pop) = 4 /\ C.RegPct = 50
    /\ \E g \in 0..MaxFlt :
         /\ WithGene(ret.before, g) = 4
         /\ WithGene(Pop, g) = 2

---------------------------------------------------------------------------
(* SortByBest.  A slice of solutions with distinct ids is drawn, then      *)
(* sorted.  sort.Sort on a slice this short is the insertion sort of the   *)
(* sort package, driven by solByBest.Less and solByBest.Swap.              *)

SortN == 3       \* the slice holds SortN solutions, with ids 0..SortN-1

\* solByBest.Less on the solutions at i and j
solByBestLess(x, y) ==
    IF x.FrontId = y.FrontId THEN x.DistCrowd > y.DistCrowd
    ELSE x.FrontId < y.FrontId

\* solByBest.Swap
solByBestSwap(s, i, j) == [s EXCEPT ![i] = s[j], ![j] = s[i]]

\* for j := i; j > a && data.Less(j, j-1); j-- { data.Swap(j, j-1) }
RECURSIVE SinkLeft(_, _)
SinkLeft(s, j) ==
    IF j > 1 /\ solByBestLess(s[j], s[j - 1])
    THEN SinkLeft(solByBestSwap(s, j, j - 1), j - 1)
    ELSE s

\* for i := a + 1; i < b; i++ { ... }
RECURSIVE InsertionSortFrom(_, _)
InsertionSortFrom(s, i) ==
    IF i > Len(s) THEN s ELSE InsertionSortFrom(SinkLeft(s, i), i + 1)

SortByBest(s) == InsertionSortFrom(s, 2)

RankedSolutions == [Id : 0..(SortN - 1), FrontId : 0..MaxFront, DistCrowd : 0..MaxDist]

InitSort ==
    /\ solA \in {s \in [1..SortN -> RankedSolutions] :
                    \A i, j \in 1..SortN : s[i].Id = s[j].Id => i = j}
    /\ solB = <<>> /\ prms = <<>> /\ ret = NoRet
    /\ ppc = "unsorted"
    /\ IslandIdle

\* SortByBest(s): solA is the slice as it was handed in, solB the slice after
\* the call.
CallSortByBest ==
    /\ ppc = "unsorted"
    /\ solB' = SortByBest(solA)
    /\ ppc' = "sorted"
    /\ UNCHANGED <<solA, prms, ret>>
    /\ UNCHANGED islVars

NextSort == CallSortByBest

SpecSort == InitSort /\ [][NextSort]_vars

\* C18: after SortByBest the solutions are in ascending order of front id,
\* within a front in descending order of crowding distance, and solutions
\* equal in both are in ascending order of id.
C18_SortByBestTotal ==
    ppc = "sorted" =>
        \A i, j \in DOMAIN solB :
            i < j =>
                \/ solB[i].FrontId < solB[j].FrontId
                \/ /\ solB[i].FrontId = solB[j].FrontId
                   /\ solB[i].DistCrowd > solB[j].DistCrowd
                \/ /\ solB[i].FrontId = solB[j].FrontId
                   /\ solB[i].DistCrowd = solB[j].DistCrowd
                   /\ solB[i].Id < solB[j].Id

---------------------------------------------------------------------------
(* The tournaments of the crowding updates, group by group, for groups of  *)
(* two and more parents.  What is followed here is who plays whom and who   *)
(* is copied into the back-buffer, so an individual is the name of the     *)
(* place it comes from: <<"P", I>> is Pop[I], <<"O", k, s>> is offspring s  *)
(* of group k, <<"B", I>> is what Bkp[I] held before.  The values come from *)
(* code that is not in the sources (IndDistance, IndCompareDet,             *)
(* IndCompareProb, graph.Munkres): a tournament goes either way, and a      *)
(* matching is any assignment that gives each row, or each column when the *)
(* columns are fewer, a partner of its own.                                *)

MaxNpar == 3       \* C.NparGrp ranges over 2..MaxNpar
GroupNinds == 6    \* C.Ninds ranges over the even numbers up to GroupNinds

\* All-versus-all is followed for two parents per group (four competitors,
\* six tournaments).
GroupConfigs ==
    {c \in [GAtype : {"crowd", "cold"}, AllVsAll : BOOLEAN,
            NparGrp : 2..MaxNpar, Ninds : 2..GroupNinds] :
        /\ c.Ninds % 2 = 0 /\ c.Ninds % c.NparGrp = 0
        /\ (c.GAtype = "cold" => ~c.AllVsAll)
        /\ (c.AllVsAll => c.NparGrp = 2)}

\* rnd.IntGetGroups: the indices in a random order, cut into groups; the
\* orders followed are the ascending and the descending one.
GroupOrders(n) == {[i \in 1..n |-> i], [i \in 1..n |-> n + 1 - i]}

NoGroup == [k |-> 0, idxnew |-> 0, parents |-> <<>>, offspr |-> <<>>,
            round |-> <<>>, links |-> <<>>, played |-> <<>>, scores |-> <<>>]

InitGroup ==
    /\ solA = <<>> /\ solB = <<>> /\ ppc = "none"
    /\ prms = <<>>                       \* o.groups, flattened
    /\ ret = NoGroup                     \* what is noted of the current group
    /\ C \in GroupConfigs
    /\ Pop = [I \in 1..C.Ninds |-> <<"P", I>>]
    /\ Bkp = [I \in 1..C.Ninds |-> <<"B", I>>]
    /\ ovaoor = <<>> /\ ovamin = <<>> /\ ovamax = <<>>
    /\ OutOvas = <<>> /\ OutOors = <<>>
    /\ Nfeval = 0 /\ ncalls = 0 /\ time = 0 /\ pc = "update" /\ panic = "none"

GroupFrame ==
    /\ UNCHANGED <<C, ovaoor, Pop, ovamin, ovamax, OutOvas, OutOors, ncalls, time, panic>>
    /\ UNCHANGED <<solA, solB, ppc>>

\* update_crowding, update_crowding_old: select groups
SelectGroups ==
    /\ pc = "update"
    /\ prms' \in GroupOrders(C.Ninds)
    /\ pc' = "groups"
    /\ UNCHANGED <<ret, Bkp, Nfeval>>
    /\ GroupFrame

\* The parents of group k (k from 0): the individuals o.groups[k] names.
GroupParents(k) ==
    [i \in 1..C.NparGrp |-> Pop[prms[k * C.NparGrp + i]]]

\* The number of offspring of a group made before those of parent i and its
\* partners j > i (NewIsland's and update_crowding's counter s).
OffspringBefore(i, np) == (i - 1) * (2 * np - i)

\* o.competitors[k*nr : (k+1)*nr] as NewIsland lays it out: each parent,
\* followed by the offspring it has with the parents after it.
RoundOf(k, parents, offspr) ==
    LET np == Len(parents)
        place(c) == \* the parent whose stretch holds position c
            CHOOSE i \in 1..np :
                /\ (i - 1) + OffspringBefore(i, np) < c
                /\ c <= i + OffspringBefore(i + 1, np)
    IN [c \in 1..(np * np) |->
          LET i == place(c)
          IN IF c = i + OffspringBefore(i, np) THEN parents[i]
             ELSE offspr[c - i]]

\* The assignments of rows to columns graph.Munkres can return: links[i] is
\* the column of row i, or 0 (the code's -1) when row i has none.
Matchings(rows, cols) ==
    {l \in [1..rows -> 0..cols] :
        /\ \A i, j \in 1..rows : (l[i] = l[j] /\ l[i] # 0) => i = j
        /\ IF rows <= cols THEN \A i \in 1..rows : l[i] # 0
           ELSE \A c \in 1..cols : \E i \in 1..rows : l[i] = c}

\* The tournament loop with a point for both competitors.
ScoresBoth(won, nr) == [c \in 1..nr |-> nr - 1]

\* scores[i].Val after the all-versus-all matches of a round of nr: a point to
\* i when it wins against j > i, a point to j otherwise.
ScoresOf(won, nr) ==
    [c \in 1..nr |->
        Cardinality({j \in (c + 1)..nr : won[MatchOf(c, j, nr)]})
        + Cardinality({i \in 1..(c - 1) : ~won[MatchOf(i, c, nr)]})]

\* The matches of a round in the order the loops play them.
MatchList(round, won) ==
    LET nr == Len(round)
        nm == (nr * (nr - 1)) \div 2
    IN [m \in 1..nm |->
          LET i == CHOOSE a \in 1..(nr - 1) : \E b \in (a + 1)..nr : MatchOf(a, b, nr) = m
              j == CHOOSE b \in (i + 1)..nr : MatchOf(i, b, nr) = m
          IN [round |-> 1, A |-> round[i], B |-> round[j], A_wins |-> won[m]]]

\* update_crowding, lines 420-450 and 455-489, for group ret.k: its offspring
\* are made and evaluated, every competitor plays every other, the scores are
\* sorted and the first NparGrp are copied into the back-buffer.
CrowdAllVsAll ==
    /\ pc = "groups" /\ C.GAtype = "crowd" /\ C.AllVsAll
    /\ LET np == C.NparGrp
           nr == np * np
           parents == GroupParents(ret.k)
           offspr == [s \in 1..(np * (np - 1)) |-> <<"O", ret.k, s>>]
           round == Listed(RoundOf(ret.k, parents, offspr))
       IN \E won \in [1..((nr * (nr - 1)) \div 2) -> BOOLEAN] :
          \E val \in {Listed(ScoresOf(won, nr))} :
          \E sorted \in {SortedByKey(round, Listed([c \in 1..nr |-> 0 - val[c]]))} :
             /\ Bkp' = [I \in 1..C.Ninds |->
                          IF I > ret.idxnew /\ I <= ret.idxnew + np
                          THEN sorted[I - ret.idxnew] ELSE Bkp[I]]
             /\ ret' = [k |-> ret.k, idxnew |-> ret.idxnew + np,
                        parents |-> parents, offspr |-> offspr, round |-> round,
                        links |-> <<>>, played |-> Listed(MatchList(round, won)),
                        scores |-> val]
    /\ Nfeval' = Nfeval + C.NparGrp * (C.NparGrp - 1)
    /\ pc' = "played"
    /\ UNCHANGED prms
    /\ GroupFrame

\* update_crowding, lines 420-450 and 491-521, for group ret.k: the parents
\* are matched with offspring, and each parent plays the offspring it is
\* matched with; the winner is copied into the back-buffer.
CrowdMatched ==
    /\ pc = "groups" /\ C.GAtype = "crowd" /\ ~C.AllVsAll
    /\ LET np == C.NparGrp
           no == np * (np - 1)
           parents == GroupParents(ret.k)
           offspr == [s \in 1..no |-> <<"O", ret.k, s>>]
       IN \E links \in Matchings(np, no), chance \in [1..np -> BOOLEAN] :
             /\ Bkp' = [I \in 1..C.Ninds |->
                          IF I > ret.idxnew /\ I <= ret.idxnew + np
                          THEN IF chance[I - ret.idxnew] THEN parents[I - ret.idxnew]
                               ELSE offspr[links[I - ret.idxnew]]
                          ELSE Bkp[I]]
             /\ ret' = [k |-> ret.k, idxnew |-> ret.idxnew + np,
                        parents |-> parents, offspr |-> offspr,
                        round |-> Listed(RoundOf(ret.k, parents, offspr)),
                        links |-> links,
                        played |-> [i \in 1..np |->
                                      [round |-> 1, A |-> parents[i],
                                       B |-> offspr[links[i]], A_wins |-> chance[i]]],
                        scores |-> <<>>]
    /\ Nfeval' = Nfeval + C.NparGrp * (C.NparGrp - 1)
    /\ pc' = "played"
    /\ UNCHANGED prms
    /\ GroupFrame

\* The offspring no row of the first matching is linked to, in ascending
\* order (o.round2).
Round2(links, m) ==
    LET free == {j \in 1..m : \A i \in DOMAIN links : links[i] # j}
        nth(S, q) == CHOOSE j \in S : Cardinality({x \in S : x < j}) = q - 1
    IN [q \in 1..Cardinality(free) |-> nth(free, q)]

\* update_crowding_old, lines 535-618, for group ret.k: 2(n-1) offspring;
\* round 1 matches the parents with offspring and saves the winner of parent
\* I into Bkp[I]; round 2 matches what is now in Bkp[I] with the offspring
\* left over, and the rows that got one play it.
ColdGroup ==
    /\ pc = "groups" /\ C.GAtype = "cold"
    /\ LET n == C.NparGrp
           m == (C.NparGrp - 1) * 2
           group == [i \in 1..n |-> prms[ret.k * n + i]]
           parents == GroupParents(ret.k)
           offspr == [s \in 1..m |-> <<"O", ret.k, s>>]
       IN \E linksR1 \in Matchings(n, m), chance1 \in [1..n -> BOOLEAN] :
          \E round2 \in {Round2(linksR1, m)} :
          \E linksR2 \in (IF m - n > 0 THEN Matchings(n, m - n) ELSE {[i \in 1..n |-> 0]}) :
          \E chance2 \in {c \in [1..n -> BOOLEAN] : \A i \in 1..n : linksR2[i] = 0 => c[i]} :
             LET first == [i \in 1..n |->
                             IF chance1[i] THEN parents[i] ELSE offspr[linksR1[i]]]
                 second == [i \in 1..n |->
                             IF linksR2[i] = 0 \/ chance2[i] THEN first[i]
                             ELSE offspr[round2[linksR2[i]]]]
                 inR2 == {i \in 1..n : linksR2[i] # 0}
                 nthR2(q) == CHOOSE i \in inR2 : Cardinality({x \in inR2 : x < i}) = q - 1
             IN /\ Bkp' = [I \in 1..C.Ninds |->
                            IF \E i \in 1..n : group[i] = I
                            THEN second[CHOOSE i \in 1..n : group[i] = I]
                            ELSE Bkp[I]]
                /\ ret' = [k |-> ret.k, idxnew |-> ret.idxnew + n,
                           parents |-> parents, offspr |-> offspr,
                           round |-> <<>>, links |-> linksR1,
                           played |->
                              [i \in 1..n |->
                                 [round |-> 1, A |-> parents[i],
                                  B |-> offspr[linksR1[i]], A_wins |-> chance1[i]]]
                              \o [q \in 1..Cardinality(inR2) |->
                                    [round |-> 2, A |-> first[nthR2(q)],
                                     B |-> offspr[round2[linksR2[nthR2(q)]]],
                                     A_wins |-> chance2[nthR2(q)]]],
                           scores |-> <<>>]
    /\ Nfeval' = Nfeval + (C.NparGrp - 1) * 2
    /\ pc' = "played"
    /\ UNCHANGED prms
    /\ GroupFrame

\* for k := 0; k < ng; k++: on to the next group, or out of the loop.  What
\* was noted of the group gone through is dropped.
AdvanceGroup ==
    /\ pc = "played"
    /\ ret' = [NoGroup EXCEPT !.k = ret.k + 1, !.idxnew = ret.idxnew]
    /\ pc' = IF ret.k + 1 = C.Ninds \div C.NparGrp THEN "swap" ELSE "groups"
    /\ UNCHANGED <<prms, Bkp, Nfeval>>
    /\ GroupFrame

NextGroup ==
    SelectGroups \/ CrowdAllVsAll \/ CrowdMatched \/ ColdGroup \/ AdvanceGroup

SpecGroup == InitGroup /\ [][NextGroup]_vars

\* The tournaments of the current group offspring o was entered in.
EnteredBy(o) == {q \in DOMAIN ret.played : ret.played[q].B = o}

\* C19: in matched crowding, when a group has been gone through, every parent
\* has played exactly one first-round tournament, against the offspring the
\* matching gave it, and every offspring of the group has been entered in a
\* tournament, of the first round or of the second.
C19_EveryOffspringPlays ==
    (pc = "played" /\ ~C.AllVsAll) =>
        /\ \A i \in DOMAIN ret.parents :
             /\ Cardinality({q \in DOMAIN ret.played :
                               /\ ret.played[q].round = 1
                               /\ ret.played[q].A = ret.parents[i]}) = 1
             /\ \E q \in DOMAIN ret.played :
                  /\ ret.played[q].round = 1
                  /\ ret.played[q].A = ret.parents[i]
                  /\ ret.played[q].B = ret.offspr[ret.links[i]]
        /\ \A s \in DOMAIN ret.offspr : EnteredBy(ret.offspr[s]) # {}

\* The points the matches noted give competitor c of the round.
PointsOf(c) ==
    Cardinality({q \in DOMAIN ret.played :
                   \/ ret.played[q].A = ret.round[c] /\ ret.played[q].A_wins
                   \/ ret.played[q].B = ret.round[c] /\ ~ret.played[q].A_wins})

\* C20: in all-versus-all crowding, when a group has been gone through, every
\* two of its NparGrp * NparGrp competitors have played exactly one tournament
\* and one of the two got the point, so that the scores sum to nr (nr - 1) / 2;
\* NparGrp different competitors were copied into the back-buffer, and none
\* left out has more wins than one copied.
C20_AllVersusAll ==
    (pc = "played" /\ C.AllVsAll) =>
        LET nr == C.NparGrp * C.NparGrp
            copied == {c \in 1..nr :
                         \E I \in (ret.idxnew - C.NparGrp + 1)..ret.idxnew :
                            Bkp[I] = ret.round[c]}
        IN /\ Len(ret.round) = nr
           /\ \A a, b \in 1..nr :
                a < b =>
                   Cardinality({q \in DOMAIN ret.played :
                                  {ret.played[q].A, ret.played[q].B}
                                     = {ret.round[a], ret.round[b]}}) = 1
           /\ Len(ret.played) = (nr * (nr - 1)) \div 2
           /\ \A c \in 1..nr : ret.scores[c] = PointsOf(c)
           /\ SeqSum(ret.scores) = (nr * (nr - 1)) \div 2
           /\ Cardinality(copied) = C.NparGrp
           /\ \A I \in (ret.idxnew - C.NparGrp + 1)..ret.idxnew :
                 \E c \in 1..nr : Bkp[I] = ret.round[c]
           /\ \A c \in copied : \A d \in (1..nr) \ copied :
                 ret.scores[c] >= ret.scores[d]

\* The second group of an island of four has played all-versus-all; an
\* offspring won all its three matches and was copied into the back-buffer
\* first, and a parent lost all of its.
C20_Witness ==
    /\ pc = "played" /\ C.AllVsAll /\ ret.k = 1 /\ C.Ninds = 4
    /\ \E c \in 1..4 :
         /\ ret.round[c] \in {<<"O", 1, 1>>, <<"O", 1, 2>>}
         /\ ret.scores[c] = 3
         /\ Bkp[3] = ret.round[c]
    /\ \E d \in 1..4 : ret.round[d] = <<"P", 3>> /\ ret.scores[d] = 0

---------------------------------------------------------------------------
(* Island.Run: the order of its stages *)

\* C21: within one generation step the stages run in the stated order: the
\* homogeneity check with its regeneration first, then the update that builds
\* and evaluates the offspring, then the ranking and the swap, the elitism,
\* and the recording of the best last (a step that fails ends the island).
C21_StatedOrder ==
    [][\/ pc = "new"
       \/ pc' = "failed"
       \/ /\ pc = "regen" => pc' = "update"
          /\ pc = "update" => pc' = "swap"
          /\ pc = "swap" => pc' = "elite"
          /\ pc = "elite" => pc' = "record"
          /\ pc = "record" => pc' \in {"regen", "done"}]_vars

---------------------------------------------------------------------------
(* Island.update_standard: the selection probabilities, lines 717-747.      *)
(* A population of two or four evaluated individuals is ranked by           *)
(* CalcDemeritsCdistAndSort, then the fitness, the probabilities and their  *)
(* cumulated sums are computed from the demerits.  A float64 is a ratio of  *)
(* two integers; x / 0 is NaN for x = 0 and an infinity otherwise, as the   *)
(* IEEE division of Go gives, and NaN goes through every sum and quotient.  *)

ProbN == 4

\* RnkSp, the selective pressure of the ranking, in halves: 1, 1.5 and 2.
RnkSps == {2, 3, 4}

NaN == [kind |-> "NaN", num |-> 0, den |-> 0]

\* The float64 quotient num / den of two finite values (den >= 0 here).
Quotient(num, den) ==
    IF den = 0
    THEN IF num = 0 THEN NaN ELSE [kind |-> "Inf", num |-> num, den |-> 0]
    ELSE [kind |-> "finite", num |-> num, den |-> den]

\* The fitness numerators of the ranking branch over the denominator
\* 2 (ninds - 1): 2 - sp + 2 (sp - 1) (ninds - i - 1) / (ninds - 1), i from 0.
RankFitness(ninds, sp2) ==
    [i \in 1..ninds |-> (4 - sp2) * (ninds - 1) + 2 * (sp2 - 2) * (ninds - i)]

\* The fitness numerators of the other branch over the denominator
\* maxdem - mindem: maxdem - Demerit.
DemeritFitness(pop) ==
    LET dems == [i \in DOMAIN pop |-> pop[i].Demerit]
    IN [i \in DOMAIN pop |-> SeqMax(dems) - dems[i]]

\* o.fitness after lines 719-737.
Fitness(pop, rnk, sp2) ==
    LET n == Len(pop)
        dems == [i \in 1..n |-> pop[i].Demerit]
        num == IF rnk THEN RankFitness(n, sp2) ELSE DemeritFitness(pop)
        den == IF rnk THEN 2 * (n - 1) ELSE SeqMax(dems) - SeqMin(dems)
    IN [i \in 1..n |-> Quotient(num[i], den)]

\* o.prob and o.cumprob after lines 739-747, for fitness values of one
\* denominator: prob[i] = fitness[i] / sumfit, cumprob[i] = prob[0] + ... + prob[i].
SelectionProbabilities(fitness) ==
    LET n == Len(fitness)
        finite == \A i \in 1..n : fitness[i].kind = "finite"
        sumfit == SeqSum([i \in 1..n |-> fitness[i].num])
        prob == [i \in 1..n |->
                   IF finite THEN Quotient(fitness[i].num, sumfit) ELSE NaN]
        defined == \A i \in 1..n : prob[i].kind = "finite"
    IN [prob |-> prob,
        cumprob |-> [i \in 1..n |->
                       IF defined
                       THEN Quotient(SeqSum([k \in 1..i |-> prob[k].num]), sumfit)
                       ELSE NaN]]

InitProb ==
    /\ solA = <<>> /\ solB = <<>> /\ prms = <<>> /\ ret = NoRet /\ ppc = "none"
    /\ \E rnk \in BOOLEAN, sp2 \in RnkSps :
         /\ ~rnk => sp2 = 2
         /\ C = [GAtype |-> "std", Nova |-> 2, Noor |-> 1, Rnk |-> rnk, RnkSp |-> sp2]
    /\ ovaoor = <<>>
    /\ \E n \in {m \in 2..ProbN : m % 2 = 0} : \E ks \in NonDecreasing(n, 0) :
         Pop = [i \in 1..n |-> DemIndividual(ks[i])]
    /\ Bkp = <<>> /\ ovamin = <<>> /\ ovamax = <<>>
    /\ OutOvas = <<>> /\ OutOors = <<>>
    /\ Nfeval = 0 /\ ncalls = 0 /\ time = 0 /\ pc = "unranked" /\ panic = "none"

\* update_standard up to the selection, on the ranked population.
CallProbabilities ==
    /\ pc = "ranked"
    /\ ret' = SelectionProbabilities(Listed(Fitness(Pop, C.Rnk, C.RnkSp)))
    /\ pc' = "probabilities"
    /\ UNCHANGED <<solA, solB, prms, ppc>>
    /\ UNCHANGED <<C, ovaoor, Pop, Bkp, ovamin, ovamax, OutOvas, OutOors, Nfeval,
                   ncalls, time, panic>>

NextProb == CallCalcDemerits \/ CallProbabilities

SpecProb == InitProb /\ [][NextProb]_vars

\* C22: for every ranked population the selection probabilities are defined,
\* none is negative, and their cumulated sums do not decrease and end at 1;
\* populations whose demerits are all equal included.
C22_ProbabilitiesDefined ==
    pc = "probabilities" =>
        LET n == Len(Pop)
        IN /\ \A i \in 1..n :
                /\ ret.prob[i].kind = "finite" /\ ret.prob[i].num >= 0
                /\ ret.cumprob[i].kind = "finite"
           /\ \A i \in 1..(n - 1) :
                ret.cumprob[i].num * ret.cumprob[i + 1].den
                   <= ret.cumprob[i + 1].num * ret.cumprob[i].den
           /\ ret.cumprob[n].num = ret.cumprob[n].den

---------------------------------------------------------------------------
(* Island.four_nondom, as update_crowding_old calls it before the crossover. *)
(* The four individuals carry two objectives and no penalty; the gene tells *)
(* them apart.                                                              *)

\* One exchange of two of the local variables A, B, C, D (places 1 to 4) when
\* the later one dominates the earlier one.
SwapIfDominates(l, i) ==
    IF IndCompareDet(l[i + 1], l[i]).A_dominates
    THEN [l EXCEPT ![i] = l[i + 1], ![i + 1] = l[i]]
    ELSE l

\* four_nondom: the values of its local variables A, B, C, D when it returns.
four_nondom(A, B, C_, D) ==
    LET l1 == SwapIfDominates(<<A, B, C_, D>>, 1)
        l2 == SwapIfDominates(l1, 2)
        l3 == SwapIfDominates(l2, 3)
        l4 == SwapIfDominates(l3, 1)
        l5 == SwapIfDominates(l4, 2)
    IN SwapIfDominates(l5, 1)

FourIndividuals ==
    {[NewIndividual(0, 2, 0) EXCEPT !.Ovas = v] : v \in [1..2 -> 0..MaxOva]}

InitFour ==
    /\ solA = <<>> /\ solB = <<>> /\ prms = <<>> /\ ppc = "none"
    /\ ret = [locals |-> <<>>, parents |-> <<>>, others |-> <<>>]
    /\ C = [GAtype |-> "cold", Use4inds |-> TRUE, Nova |-> 2, Noor |-> 0]
    /\ ovaoor = <<>>
    /\ \E four \in [1..4 -> FourIndividuals] :
         Pop = [i \in 1..4 |-> [four[i] EXCEPT !.Flt = i]]
    /\ Bkp = <<>> /\ ovamin = <<>> /\ ovamax = <<>>
    /\ OutOvas = <<>> /\ OutOors = <<>>
    /\ Nfeval = 0 /\ ncalls = 0 /\ time = 0 /\ pc = "parents" /\ panic = "none"

\* update_crowding_old, lines 542-548: A, B are the parents of the group, C, D
\* the first two of the next group; four_nondom is handed the four pointers
\* by value, so that the exchanges it makes stay in its own variables, and
\* IndCrossover gets the caller's A, B, C, D.
Callfour_nondom ==
    /\ pc = "parents"
    /\ ret' = [locals |-> four_nondom(Pop[1], Pop[2], Pop[3], Pop[4]),
               parents |-> <<Pop[1], Pop[2]>>,
               others |-> <<Pop[3], Pop[4]>>]
    /\ pc' = "crossover"
    /\ UNCHANGED <<solA, solB, prms, ppc>>
    /\ UNCHANGED <<C, ovaoor, Pop, Bkp, ovamin, ovamax, OutOvas, OutOors, Nfeval,
                   ncalls, time, panic>>

NextFour == Callfour_nondom

SpecFour == InitFour /\ [][NextFour]_vars

\* C23: after four_nondom, the first and the second parent handed to the
\* crossover are two of the four that neither of the other two dominates.
C23_ParentsNotDominated ==
    pc = "crossover" =>
        \A p \in 1..2 : \A q \in 1..2 :
            ~IndCompareDet(ret.others[q], ret.parents[p]).A_dominates

---------------------------------------------------------------------------
(* GenerateCxEnds, called with a chromosome size, a number of cuts and a     *)
(* list of cuts (the empty list stands for nil).                            *)

MaxSize == 4
MaxCuts == 3

\* sort.Ints
SortInts(s) == SortedByKey(s, s)

\* The sequences over S of length 0 to n.
RECURSIVE SeqsUpTo(_, _)
SeqsUpTo(S, n) ==
    IF n = 0 THEN {<<>>}
    ELSE LET shorter == SeqsUpTo(S, n - 1)
         IN shorter \cup {Append(s, x) : s \in {t \in shorter : Len(t) = n - 1}, x \in S}

\* The ascending listing of a set of integers.
RECURSIVE AscendingList(_)
AscendingList(S) ==
    IF S = {} THEN <<>>
    ELSE LET m == CHOOSE x \in S : \A y \in S : x <= y
         IN <<m>> \o AscendingList(S \ {m})

\* rnd.IntGetUniqueN(1, size, ncuts) followed by sort.Ints: ncuts different
\* values of 1..size-1 in ascending order.
SortedPools(size, ncuts) ==
    {AscendingList(S) : S \in {T \in SUBSET (1..(size - 1)) : Cardinality(T) = ncuts}}

\* GenerateCxEnds: the results it can return; ok is FALSE when it panics.
GenerateCxEnds(size, ncuts, cuts) ==
    IF size < 2 THEN {[ok |-> TRUE, ends |-> <<>>]}
    ELSE IF size = 2 THEN {[ok |-> TRUE, ends |-> <<1, size>>]}
    ELSE IF Len(cuts) > 0
    THEN IF \E i \in 1..Len(cuts) :
               \/ cuts[i] < 1 \/ cuts[i] >= size
               \/ (i > 1 /\ cuts[i] = cuts[i - 1])
         THEN {[ok |-> FALSE, ends |-> <<>>]}
         ELSE {[ok |-> TRUE, ends |-> SortInts(Append(cuts, size))]}
    ELSE LET atLeast1 == IF ncuts < 1 THEN 1 ELSE ncuts
             n == IF atLeast1 >= size THEN size - 1 ELSE atLeast1
         IN {[ok |-> TRUE, ends |-> Append(pool, size)] : pool \in SortedPools(size, n)}

InitCx ==
    /\ solA = <<>> /\ solB = <<>> /\ ppc = "input"
    /\ \E size \in 2..MaxSize, ncuts \in 0..MaxSize, cuts \in SeqsUpTo(0..MaxSize, MaxCuts) :
         prms = [size |-> size, ncuts |-> ncuts, cuts |-> cuts]
    /\ ret = [ok |-> TRUE, ends |-> <<>>]
    /\ IslandIdle

CallGenerateCxEnds ==
    /\ ppc = "input"
    /\ ret' \in GenerateCxEnds(prms.size, prms.ncuts, prms.cuts)
    /\ ppc' = "returned"
    /\ UNCHANGED <<solA, solB, prms>>
    /\ UNCHANGED islVars

NextCx == CallGenerateCxEnds

SpecCx == InitCx /\ [][NextCx]_vars

\* C25: for every size >= 2, GenerateCxEnds fails or returns end positions
\* that strictly increase, lie in 1..size and end with size; a list of cuts
\* with a repeated value, wherever it is, or with a value outside 1..size-1
\* is rejected.
C25_EndsStrictlyIncrease ==
    ppc = "returned" =>
        /\ ret.ok =>
             /\ Len(ret.ends) >= 1
             /\ \A i \in 1..Len(ret.ends) : ret.ends[i] >= 1 /\ ret.ends[i] <= prms.size
             /\ \A i \in 1..(Len(ret.ends) - 1) : ret.ends[i] < ret.ends[i + 1]
             /\ ret.ends[Len(ret.ends)] = prms.size
        /\ (\/ \E i, k \in 1..Len(prms.cuts) : i # k /\ prms.cuts[i] = prms.cuts[k]
            \/ \E i \in 1..Len(prms.cuts) : prms.cuts[i] < 1 \/ prms.cuts[i] > prms.size - 1)
           => ~ret.ok

---------------------------------------------------------------------------
(* IntCrossover (FltCrossover, StrCrossover, KeyCrossover and FunCrossover   *)
(* are the same text over other gene types).  The genes of the parents are  *)
(* labelled, so that every gene of a child tells where it came from; the    *)
(* children are handed in holding Stale.                                    *)

Stale == 0 - 1

\* The probabilities of crossover, in hundredths.
CxProbs == {0, 50, 100}

\* rnd.FlipCoin(pc): never TRUE for pc = 0, always for pc = 1.
FlipCoin(p) == IF p = 0 THEN {FALSE} ELSE IF p = 100 THEN {TRUE} ELSE BOOLEAN

\* A segment copied without looking at swap.
CopySegmentUnswapped(ab, A, B, start, end, swap) ==
    [a |-> [j \in DOMAIN ab.a |-> IF j > start /\ j <= end THEN A[j] ELSE ab.a[j]],
     b |-> [j \in DOMAIN ab.b |-> IF j > start /\ j <= end THEN B[j] ELSE ab.b[j]]]

\* The inner loops of IntCrossover, lines 1089-1097: the genes start..end-1
\* (from 0) are copied, crosswise when swap is set.
CopySegment(ab, A, B, start, end, swap) ==
    [a |-> [j \in DOMAIN ab.a |->
              IF j > start /\ j <= end THEN (IF swap THEN B[j] ELSE A[j]) ELSE ab.a[j]],
     b |-> [j \in DOMAIN ab.b |->
              IF j > start /\ j <= end THEN (IF swap THEN A[j] ELSE B[j]) ELSE ab.b[j]]]

\* The loop over ends, lines 1086-1100, from its k-th turn on.
RECURSIVE CxLoop(_, _, _, _, _, _, _)
CxLoop(ab, A, B, ends, k, start, swap) ==
    IF k > Len(ends) THEN ab
    ELSE CxLoop(CopySegment(ab, A, B, start, ends[k], swap), A, B, ends, k + 1,
                ends[k], ~swap)

\* IntCrossover for the outcome flip of the coin and the outcome gen of
\* GenerateCxEnds.
IntCrossover(ab, A, B, flip, gen) ==
    IF ~flip \/ Len(A) < 2
    THEN [ok |-> TRUE, a |-> A, b |-> B, ends |-> <<>>, crossed |-> FALSE]
    ELSE IF ~gen.ok
    THEN [ok |-> FALSE, a |-> ab.a, b |-> ab.b, ends |-> <<>>, crossed |-> FALSE]
    ELSE LET r == CxLoop(ab, A, B, gen.ends, 1, 0, FALSE)
         IN [ok |-> TRUE, a |-> Listed(r.a), b |-> Listed(r.b), ends |-> gen.ends,
             crossed |-> TRUE]

InitCross ==
    /\ solA = <<>> /\ solB = <<>> /\ ppc = "input"
    /\ \E size \in 0..MaxSize, ncuts \in 0..MaxSize,
          cuts \in SeqsUpTo(0..MaxSize, MaxCuts), p \in CxProbs, same \in BOOLEAN :
         /\ cuts # <<>> => ncuts = 0
         /\ prms = [size |-> size, ncuts |-> ncuts, cuts |-> cuts, pc |-> p,
                    A |-> [j \in 1..size |-> j],
                    B |-> [j \in 1..size |-> IF same THEN j ELSE MaxSize + j]]
    /\ ret = [ok |-> TRUE, a |-> <<>>, b |-> <<>>, ends |-> <<>>, crossed |-> FALSE]
    /\ IslandIdle

CallIntCrossover ==
    /\ ppc = "input"
    /\ \E flip \in FlipCoin(prms.pc) :
       \E gen \in GenerateCxEnds(prms.size, prms.ncuts, prms.cuts) :
          ret' = IntCrossover([a |-> [j \in 1..prms.size |-> Stale],
                               b |-> [j \in 1..prms.size |-> Stale]],
                              prms.A, prms.B, flip, gen)
    /\ ppc' = "returned"
    /\ UNCHANGED <<solA, solB, prms>>
    /\ UNCHANGED islVars

NextCross == CallIntCrossover

SpecCross == InitCross /\ [][NextCross]_vars

\* Gene p of the children comes crosswise from the parents, or straight.
Crosswise(p) == ret.a[p] = prms.B[p] /\ ret.b[p] = prms.A[p]
Straight(p) == ret.a[p] = prms.A[p] /\ ret.b[p] = prms.B[p]

\* The children equal the parents when the chromosome has fewer than two
\* genes or the probability of crossover is 0.
NoCrossoverKeepsParents ==
    (prms.size < 2 \/ prms.pc = 0) => (ret.a = prms.A /\ ret.b = prms.B)

---------------------------------------------------------------------------
(* Solution.Compare as a relation: three solutions of one shape (one        *)
(* objective, two penalties) are compared with each other, the              *)
(* neighbour-distance flag being off.                                       *)

OrdMaxOva == 2
OrdMaxOor == 3

OrderSolutions ==
    [Ova : Vec(OneIdx, 0..OrdMaxOva), Oor : Vec(TwoIdx, 0..OrdMaxOor),
     FrontId : {0}, DistCrowd : {0}, DistNeigh : {0}]

InitOrder ==
    /\ solA \in [1..3 -> OrderSolutions]
    /\ solB = <<>>
    /\ prms = [use_solution_comparedneigh |-> FALSE,
               use_solution_frontcomparison |-> FALSE,
               use_solution_distneighfight |-> FALSE]
    /\ ret = <<>>
    /\ ppc = "input"
    /\ IslandIdle

\* Compare is called on every pair: ret[i][j] is what solA[i].Compare(solA[j])
\* returns.
CallCompareAll ==
    /\ ppc = "input"
    /\ ret' = [i \in 1..3 |-> [j \in 1..3 |-> Compare(solA[i], solA[j], prms)]]
    /\ ppc' = "compared"
    /\ UNCHANGED <<solA, solB, prms>>
    /\ UNCHANGED islVars

NextOrder == CallCompareAll

SpecOrder == InitOrder /\ [][NextOrder]_vars

\* C26: the dominance Compare computes is a strict partial order: no solution
\* dominates itself, Compare(B, A) is Compare(A, B) with the results
\* exchanged and never both, dominance is transitive, and every non-empty set
\* of the solutions has a member that no other member dominates.
C26_StrictPartialOrder ==
    ppc = "compared" =>
        /\ \A i \in 1..3 : ~ret[i][i].A_dominates /\ ~ret[i][i].B_dominates
        /\ \A i, j \in 1..3 :
              /\ ret[j][i].A_dominates = ret[i][j].B_dominates
              /\ ret[j][i].B_dominates = ret[i][j].A_dominates
              /\ ~(ret[i][j].A_dominates /\ ret[i][j].B_dominates)
        /\ \A i, j, k \in 1..3 :
              (ret[i][j].A_dominates /\ ret[j][k].A_dominates) => ret[i][k].A_dominates
        /\ \A S \in (SUBSET (1..3)) \ {{}} :
              \E i \in S : \A j \in S : ~ret[j][i].A_dominates

---------------------------------------------------------------------------
(* Island.Run: elitism over the generations *)

\* The smallest value of the first objective in a population.
BestOva(pop) == SeqMin([i \in DOMAIN pop |-> pop[i].Ovas[1]])

\* The objective function writes no positive and no negative penalty.
KeepsFeasible == \A g \in DOMAIN ovaoor : \A j \in DOMAIN ovaoor[g].Oors : ovaoor[g].Oors[j] = 0

\* C27: with elitism on, one objective and every individual feasible, when
\* Run(t) for t >= 1 is about to return, the smallest objective value of the
\* population is not larger than it was when Run(t - 1) returned (the
\* back-buffer holds that population since the swap), regeneration or not.
C27_BestNeverLost ==
    (pc = "record" /\ time >= 1 /\ C.Elite /\ C.Nova = 1 /\ KeepsFeasible) =>
        BestOva(Pop) <= BestOva(Bkp)

---------------------------------------------------------------------------
(* The two buffers of an island over the generations.  An individual is a   *)
(* record of the object it is (obj) and of the step in which its values     *)
(* were last written (written: 0 at construction, time + 1 in Run(time));   *)
(* the slices Pop and Bkp list the individuals they point to.               *)

BufNinds == 4
BufTf == 2

BufConfigs ==
    {c \in [GAtype : {"std", "crowd", "cold"}, AllVsAll : BOOLEAN, Elite : BOOLEAN,
            NparGrp : 2..MaxNpar, Ninds : 2..BufNinds, Tf : 1..BufTf] :
        /\ c.Ninds % 2 = 0 /\ c.Ninds % c.NparGrp = 0
        /\ (c.GAtype # "crowd" => ~c.AllVsAll)}

\* NewIsland, lines 109-132 and 227-228: a population of Ninds individuals,
\* its copy as the back-buffer, and the population ranked.
InitBuffers ==
    /\ solA = <<>> /\ solB = <<>> /\ prms = <<>> /\ ret = NoRet /\ ppc = "none"
    /\ C \in BufConfigs
    /\ ovaoor = <<>>
    /\ \E order \in Perms(C.Ninds) :
         Pop = [I \in 1..C.Ninds |-> [obj |-> order[I], written |-> 0]]
    /\ Bkp = [I \in 1..C.Ninds |-> [obj |-> C.Ninds + I, written |-> 0]]
    /\ ovamin = <<>> /\ ovamax = <<>> /\ OutOvas = <<>> /\ OutOors = <<>>
    /\ Nfeval = 0 /\ ncalls = 0 /\ time = 0 /\ pc = "update" /\ panic = "none"

BufFrame ==
    /\ UNCHANGED <<C, ovaoor, ovamin, ovamax, OutOvas, OutOors, Nfeval, ncalls>>
    /\ UNCHANGED solVars

\* A crowding update that keeps one winner per group.
CrowdSlotsOnePerGroup(ninds, np) == 1..(ninds \div np)

\* update_crowding: the places of Bkp that the winners are copied into, idxnew
\* going up by one for each of the np winners of each of the ng groups.
CrowdSlots(ninds, np) ==
    LET ng == ninds \div np
    IN {k * np + i + 1 : k \in 0..(ng - 1), i \in 0..(np - 1)}

\* update_crowding_old: the places I = group[i] of Bkp that the first round
\* of each group saves its winners into.
ColdSlots(groups, ninds, np) ==
    LET ng == ninds \div np
    IN {groups[k * np + i + 1] : k \in 0..(ng - 1), i \in 0..(np - 1)}

\* CopyInto into the individuals at the given places: their values are
\* written, the objects stay.
WrittenAt(buf, slots, step) ==
    [I \in DOMAIN buf |-> IF I \in slots THEN [buf[I] EXCEPT !.written = step] ELSE buf[I]]

\* Run, lines 342-349.
BufUpdate ==
    /\ pc = "update"
    /\ \/ /\ C.GAtype = "crowd"
          /\ Bkp' = WrittenAt(Bkp, CrowdSlots(C.Ninds, C.NparGrp), time + 1)
          /\ pc' = "swap" /\ panic' = panic
       \/ /\ C.GAtype = "cold"
          /\ \E groups \in Perms(C.Ninds) :
               Bkp' = WrittenAt(Bkp, ColdSlots(groups, C.Ninds, C.NparGrp), time + 1)
          /\ pc' = "swap" /\ panic' = panic
       \/ /\ C.GAtype = "std"
          /\ LET nsel == C.Ninds
                 ncum == C.Ninds
                 h == Len(Pop) \div 2
             IN IF nsel < ncum
                THEN /\ Bkp' = WrittenAt(Bkp, {i + 1 : i \in 0..(h - 1)}
                                               \cup {h + i + 1 : i \in 0..(h - 1)}, time + 1)
                     /\ pc' = "swap" /\ panic' = panic
                ELSE Bkp' = Bkp /\ pc' = "failed" /\ panic' = "assert"
    /\ UNCHANGED <<Pop, time>>
    /\ BufFrame

\* Run, lines 351-353: the slices are exchanged, and the ranking puts the
\* individuals of the new population in some order.
BufSwapSort ==
    /\ pc = "swap"
    /\ \E order \in Perms(C.Ninds) : Pop' = [I \in 1..C.Ninds |-> Bkp[order[I]]]
    /\ Bkp' = Pop
    /\ pc' = "elite"
    /\ UNCHANGED <<time, panic>>
    /\ BufFrame

\* Run, lines 355-362: the previous best may be copied into the last one.
BufElitism ==
    /\ pc = "elite"
    /\ \E prev_dominates \in BOOLEAN :
         Pop' = IF C.Elite /\ prev_dominates
                THEN WrittenAt(Pop, {C.Ninds}, time + 1) ELSE Pop
    /\ pc' = "regen"
    /\ UNCHANGED <<Bkp, time, panic>>
    /\ BufFrame

\* Run, lines 364-378, and Regenerate: the last individuals get new genes,
\* CalcOvs writes the values of all of them again, and they are ranked.
BufRegen ==
    /\ pc = "regen"
    /\ \E homogeneous \in BOOLEAN :
         IF homogeneous
         THEN \E order \in Perms(C.Ninds) :
                Pop' = [I \in 1..C.Ninds |->
                          WrittenAt(Pop, 1..C.Ninds, time + 1)[order[I]]]
         ELSE Pop' = Pop
    /\ pc' = "record"
    /\ UNCHANGED <<Bkp, time, panic>>
    /\ BufFrame

\* Run returns; the main loop calls it for the times 0 to Tf.
BufRecord ==
    /\ pc = "record"
    /\ time' = time + 1
    /\ pc' = IF time < C.Tf THEN "update" ELSE "done"
    /\ UNCHANGED <<Pop, Bkp, panic>>
    /\ BufFrame

NextBuffers == BufUpdate \/ BufSwapSort \/ BufElitism \/ BufRegen \/ BufRecord

SpecBuffers == InitBuffers /\ [][NextBuffers]_vars

Objects(buf) == {buf[I].obj : I \in DOMAIN buf}

\* C28: the population and the back-buffer are two buffers of Ninds
\* individuals each, all different objects; when the update of Run(time) is
\* over every place of the back-buffer has been written in that step, and
\* when Run(time) has returned no individual of the population holds values
\* written before that step.
C28_BuffersDisjointAndFresh ==
    /\ Len(Pop) = C.Ninds /\ Len(Bkp) = C.Ninds
    /\ Cardinality(Objects(Pop) \cup Objects(Bkp)) = 2 * C.Ninds
    /\ pc = "swap" => \A I \in 1..C.Ninds : Bkp[I].written = time + 1
    /\ (pc \in {"update", "done"} /\ time >= 1) =>
          \A I \in 1..C.Ninds : Pop[I].written = time

\* Run(1) of an island of four with old crowding has returned: the buffers
\* have been exchanged twice, and the population holds the objects it held
\* at construction, in another order, with the values of this step.
C28_Witness ==
    /\ pc \in {"update", "done"} /\ time = 2 /\ C.GAtype = "cold" /\ C.Ninds = 4
    /\ Objects(Pop) = 1..4
    /\ Pop[1].obj = 3
    /\ \A I \in 1..4 : Pop[I].written = 2 /\ Bkp[I].written >= 1

---------------------------------------------------------------------------
(* Solution.CopyInto and the memory of two solutions.  A slice field of a   *)
(* solution is the address of the array NewSolution allocated for it; the   *)
(* arrays are in prms, the heap.  A holds the arrays 1 to 4, B the arrays 5 *)
(* to 8, one element each.                                                  *)

AliasVals == {0, 1}

SliceFields == {"Ova", "Oor", "Flt", "Int"}

\* The metrics of a solution.
Metrics(s) ==
    [WinOver |-> s.WinOver, Repeated |-> s.Repeated, Nwins |-> s.Nwins,
     Nlosses |-> s.Nlosses, FrontId |-> s.FrontId, DistCrowd |-> s.DistCrowd,
     DistNeigh |-> s.DistNeigh, Closest |-> s.Closest]

\* The essential data of a solution as the heap holds it.
Essential(s, heap) ==
    [Id |-> s.Id, Ova |-> heap[s.Ova], Oor |-> heap[s.Oor], Flt |-> heap[s.Flt],
     Int |-> heap[s.Int]]

\* NewSolution: a solution with the given id, arrays and metrics.
NewSolution(id, first, nwins, front, dist) ==
    [Id |-> id, Ova |-> first, Oor |-> first + 1, Flt |-> first + 2, Int |-> first + 3,
     WinOver |-> <<>>, Repeated |-> (nwins = 1), Nwins |-> nwins, Nlosses |-> 1 - nwins,
     FrontId |-> front, DistCrowd |-> dist, DistNeigh |-> 1 - dist, Closest |-> "nil"]

\* A CopyInto that assigns the slices of A to B instead of copying elements.
CopyIntoSlices(A, B, heap) ==
    [B |-> [B EXCEPT !.Id = A.Id, !.Ova = A.Ova, !.Oor = A.Oor, !.Flt = A.Flt,
                     !.Int = A.Int],
     heap |-> heap]

\* Solution.CopyInto on the heap: B and the heap after A.CopyInto(B); copy
\* writes the elements into the arrays of B, one field after the other.
CopyIntoElements(A, B, heap) ==
    LET h1 == [heap EXCEPT ![B.Ova] = GoCopy(heap[B.Ova], heap[A.Ova])]
        h2 == [h1 EXCEPT ![B.Oor] = GoCopy(h1[B.Oor], h1[A.Oor])]
        h3 == [h2 EXCEPT ![B.Flt] = GoCopy(h2[B.Flt], h2[A.Flt])]
        h4 == [h3 EXCEPT ![B.Int] = GoCopy(h3[B.Int], h3[A.Int])]
    IN [B |-> [B EXCEPT !.Id = A.Id], heap |-> h4]

InitAlias ==
    /\ \E nwins \in AliasVals : solA = NewSolution(0, 1, nwins, 0, 0)
    /\ \E id \in AliasVals, nwins \in AliasVals, front \in AliasVals, dist \in AliasVals :
         solB = NewSolution(id, 5, nwins, front, dist)
    /\ prms \in [1..8 -> [1..1 -> AliasVals]]
    /\ ret = [A |-> <<>>, B |-> <<>>]
    /\ ppc = "input"
    /\ IslandIdle

\* A.CopyInto(B); ret keeps the data of A as it was before the call and the
\* data of B as the call left it.
CallCopyIntoB ==
    /\ ppc = "input"
    /\ \E r \in {CopyIntoElements(solA, solB, prms)} :
         /\ solB' = r.B
         /\ prms' = r.heap
         /\ ret' = [A |-> [data |-> Essential(solA, prms), metrics |-> Metrics(solA)],
                    B |-> [data |-> Essential(r.B, r.heap), metrics |-> Metrics(solB)]]
    /\ ppc' = "copied"
    /\ UNCHANGED solA
    /\ UNCHANGED islVars

\* After the call an element of one of A's vectors is assigned.
WriteToA ==
    /\ ppc = "copied"
    /\ \E f \in SliceFields, v \in AliasVals :
         prms' = [prms EXCEPT ![solA[f]] = [@ EXCEPT ![1] = v]]
    /\ ppc' = "written"
    /\ UNCHANGED <<solA, solB, ret>>
    /\ UNCHANGED islVars

NextAlias == CallCopyIntoB \/ WriteToA

SpecAlias == InitAlias /\ [][NextAlias]_vars

\* C29: CopyInto gives B the id and the values of A and leaves A and the
\* metrics of B as they were; B shares no array with A, and after a later
\* write to a vector of A the data of B are as the copy left them.
C29_CopyIntoCopiesValues ==
    /\ ppc = "copied" =>
          /\ Essential(solA, prms) = ret.A.data /\ Metrics(solA) = ret.A.metrics
          /\ Essential(solB, prms) = ret.A.data
          /\ Metrics(solB) = ret.B.metrics
    /\ ppc # "input" => {solA[f] : f \in SliceFields} \cap {solB[f] : f \in SliceFields} = {}
    /\ ppc = "written" =>
          /\ Essential(solB, prms) = ret.B.data
          /\ Metrics(solB) = ret.B.metrics

\* B differed from A in every vector and in its metrics; after the copy the
\* objective of A was overwritten, and B still holds the value copied.
C29_Witness ==
    /\ ppc = "written"
    /\ ret.B.data = ret.A.data
    /\ Essential(solA, prms).Ova # ret.A.data.Ova
    /\ Essential(solB, prms).Ova = ret.A.data.Ova
    /\ Metrics(solB) # Metrics(solA)

---------------------------------------------------------------------------
(* Island.update_standard: the selection step *)

\* C30: the standard update of a constructed island gets past its selection:
\* the size assertion of RouletteSelect and SUSselect, number selected less
\* than number of cumulated probabilities, does not fail.
C30_SelectionAssertionHolds ==
    C.GAtype \notin {"crowd", "cold"} => panic # "assert"

=============================================================================
